---- MODULE Spec2Model ----
(***************************************************************************)
(* MemoryQueue (app/services/queue.py): an asyncio FIFO of task dicts, a   *)
(* result map keyed by task id, and a background worker coroutine that     *)
(* pops one task at a time and awaits an injected handler for it.          *)
(*                                                                         *)
(* One step of the model is one uninterrupted run of a coroutine between   *)
(* two suspension points of the event loop.  enqueue, get_task_result and  *)
(* start_worker never suspend; stop_worker suspends when the worker task   *)
(* it awaits is not done; _worker suspends in wait_for(tasks.get()) and    *)
(* wherever the handler awaits.  The event loop runs what is ready in the  *)
(* order in which it became ready (asyncio's call_soon queue); wait_for    *)
(* is the one of Python 3.11 and earlier, which runs tasks.get() in a task *)
(* of its own.                                                             *)
(***************************************************************************)
EXTENDS Naturals, Integers, Sequences, FiniteSets, TLC

\* ---------------------------------------------------------------- bounds
MaxTasks == 3        \* enqueue calls explored
MaxWorkers == 2      \* worker coroutines start_worker may spawn

TaskIds == 1..MaxTasks
WorkerIds == 1..MaxWorkers

\* ---------------------------------------------------------------- inputs
TaskTypes == {"echo"}                \* task_type arguments of enqueue
PollIds == {1, MaxTasks + 1}         \* task_id arguments of get_task_result:
                                     \* the first identifier issued, and one
                                     \* that enqueue never returns
Handlers == {"h1", "h2"}             \* process_func arguments of start_worker
Returns == {"V", "W"}                \* values a handler call returns
ErrorMsgs == {"", "boom"}            \* str(e) of the exceptions a handler raises

\* ---------------------------------------------------------------- values
None == "None"           \* Python None
Absent == "absent"       \* a key the dict does not have
NoTask == [id |-> 0, type |-> None, status |-> None]

VARIABLES
    tasks,          \* self.tasks: the items of the asyncio.Queue, head first
    getters,        \* self.tasks._getters: the workers whose tasks.get()
                    \* waits for an item, in the order they began to wait
    results,        \* self.results: task id -> result record
    _running,       \* self._running
    _worker_task,   \* self._worker_task: 0 is None, else the worker coroutine
    workers,        \* the _worker coroutines created so far
    ready,          \* the event loop's queue of callbacks ready to run
    stopWait,       \* workers a suspended stop_worker call is awaiting
    atStop,         \* ids of the tasks stop_worker last found on the FIFO
                    \* that no handler call has been made for since
    reply,          \* what the last get_task_result call returned
    started,        \* task ids in the order their processing stamp was taken
    calls           \* per task id: handler invocations and how the call ended

queueVars == <<tasks, getters, results, _running, _worker_task, workers,
               ready, stopWait, atStop, reply, started, calls>>

\* uuid.uuid4(): 122 random bits.  An identifier is named by the number of
\* identifiers drawn before it; the draws explored are those that return a
\* value no earlier draw returned
uuid4 == {Cardinality(DOMAIN results) + 1}

\* datetime.now().isoformat(): a reading of the wall clock.  A record keeps
\* which stamps it carries; the order of the readings is the order of the steps
Stamp == "stamp"

\* an assignment that rebinds the dict to one holding only the new key
SetOnly(d, k, v) == [i \in {k} |-> v]

\* d[k] = v on a dict: a new key is added, an existing one is overwritten
SetItem(d, k, v) ==
    [i \in DOMAIN d \cup {k} |-> IF i = k THEN v ELSE d[i]]

\* the record enqueue stores in self.results
PendingRecord(timestamp) ==
    [status |-> "pending", result |-> None, created_at |-> timestamp,
     processing_started |-> Absent, error |-> Absent, completed_at |-> Absent,
     error_at |-> Absent]

\* the dict enqueue puts on the FIFO
NewTask(task_id, task_type) ==
    [id |-> task_id, type |-> task_type, status |-> "pending"]

\* a dequeue update that already stores a placeholder result
MarkProcessingWithPlaceholder(rec, now) ==
    [rec EXCEPT !.status = "processing", !.processing_started = now,
                !.result = "placeholder"]

\* the worker's status update on dequeue
MarkProcessing(rec, now) ==
    [rec EXCEPT !.status = "processing", !.processing_started = now]

\* a completion update that stores a rendering of the value, not the value
MarkCompletedRendered(rec, result, now) ==
    [rec EXCEPT !.status = "completed", !.result = <<"str", result>>,
                !.completed_at = now]

\* the worker's update after the handler returned
MarkCompleted(rec, result, now) ==
    [rec EXCEPT !.status = "completed", !.result = result,
                !.completed_at = now]

\* a retry policy the queue does not have: a failed task goes back to pending
MarkFailedRetry(rec, error_msg, now) ==
    [rec EXCEPT !.status = "pending", !.error = error_msg, !.error_at = now]

\* the worker's update after the handler raised an Exception
MarkFailed(rec, error_msg, now) ==
    [rec EXCEPT !.status = "failed", !.error = error_msg, !.error_at = now]

\* asyncio.Queue(): the default maxsize, an unbounded queue
maxsize == 0

\* a queue that holds one task at most
FullAtOne(q) == Len(q) >= 1

\* asyncio.Queue.full: put suspends the caller while it holds
Full(q) == IF maxsize <= 0 THEN FALSE ELSE Len(q) >= maxsize

\* a get that leaves the item on the queue
QueuePeek(q) == [item |-> Head(q), rest |-> q]

\* asyncio.Queue.get_nowait on a non-empty queue: the head leaves the FIFO
QueueGet(q) == [item |-> Head(q), rest |-> Tail(q)]

\* ------------------------------------------------------------ event loop
\* a callback in the ready queue: the next step of worker w's coroutine
\* ("step"), the next step of the task wait_for wraps its tasks.get() in
\* ("get"), the done-callback _release_waiter of that task ("cb"), or the
\* wake-up of the stop_worker call that awaits worker w ("stop")
Handle(h, w) == [h |-> h, w |-> w]

InReady(q, h, w) == \E k \in DOMAIN q : q[k] = Handle(h, w)

\* loop.call_soon: the callback goes to the end of the ready queue
CallSoon(q, h, w) == Append(q, Handle(h, w))

\* a callback that would find its waiter done and do nothing
Drop(q, h, w) == SelectSeq(q, LAMBDA x : x # Handle(h, w))

\* Task.cancel() on a task that waits for a future cancels the future, which
\* makes the task ready; on a task that is ready already it makes the task's
\* next step begin with CancelledError
Wake(q, h, w) == IF InReady(q, h, w) THEN q ELSE CallSoon(q, h, w)

\* asyncio.wait_for(self.tasks.get(), 1.0) when the worker is cancelled in it:
\* if the inner get is done its item is returned and the cancellation is
\* swallowed, else the inner get is cancelled and CancelledError is raised
WaitForCancelled(done) == IF done THEN "return" ELSE "raise"

\* asyncio.create_task(self._worker(process_func)).  pc: where the coroutine
\* is suspended; fut: where the task wrapping tasks.get() is
NewWorker(process_func) ==
    [pc |-> "created", process_func |-> process_func, task |-> NoTask,
     must_cancel |-> FALSE, fut |-> "none", fut_must_cancel |-> FALSE]

\* how a handler call goes on when the event loop runs it: it awaits
\* something, returns a value, raises an Exception e (value: str(e)), or
\* raises CancelledError
Outcomes ==
    {[kind |-> "await", value |-> None], [kind |-> "cancelled", value |-> None]}
    \cup {[kind |-> "return", value |-> r] : r \in Returns}
    \cup {[kind |-> "raise", value |-> m] : m \in ErrorMsgs}

\* ------------------------------------------------------------ file store
\* app/utils/storage.py keeps uploads as files under STORAGE_DIR.  A file
\* name is a sequence of characters, a path the sequence of its components
\* below STORAGE_DIR, and the disk maps every existing path to a directory
\* or to the bytes of a file.
VARIABLES
    disk,           \* the file system below STORAGE_DIR
    stored,         \* location -> bytes of the last successful save_file there
                    \* that no delete_file call has removed since
    out,            \* what the last storage call to end returned or raised
    saving,         \* the save_file call in flight and where it is
    getting         \* the get_file call in flight and where it is

storeVars == <<disk, stored, out, saving, getting>>

VARIABLES
    gen             \* one generate_strong_password call: where it is, the
                    \* length asked for, the list built so far, the index
                    \* the shuffle has reached

\* ---------------------------------------------------------- progress table
\* update_progress (app/db/crud.py, and its copy in the route of
\* app/api/routes/progress.py) runs its statements on the progreso table of
\* app/db/database.py, awaiting each, so the statements of two calls can
\* alternate.  Each call has a connection of its own (get_db) to the
\* database, which is in WAL mode (init_db).  The table is the sequence of
\* its committed rows in id order.
VARIABLES
    progreso,       \* the committed rows of the progreso table
    upsert,         \* caller -> where its update_progress call is
    overlapped      \* some call began while another was between its first
                    \* statement and its end

dbVars == <<progreso, upsert, overlapped>>

\* ------------------------------------------------------ content generation
\* app/services/content_generator.py process_task is the handler the worker
\* is meant to call; app/main.py holds the startup and shutdown events of the
\* application whose routes enqueue the tasks.
VARIABLES
    job,            \* one task handed to process_task by the worker loop:
                    \* the task, where the call is, and the result record
    app             \* whether the application is between startup_event and
                    \* shutdown_event, and the globals of app/main.py

vars == <<tasks, getters, results, _running, _worker_task, workers, ready,
          stopWait, atStop, reply, started, calls, disk, stored, out, saving, getting,
          gen, progreso, upsert, overlapped, job, app>>

\* what the operations of one component leave alone
queueFrame == <<storeVars, gen, dbVars, job, app>>
storeFrame == <<queueVars, gen, dbVars, job, app>>
genFrame == <<queueVars, storeVars, dbVars, job, app>>
dbFrame == <<queueVars, storeVars, gen, job, app>>
jobFrame == <<queueVars, storeVars, gen, dbVars, app>>
appFrame == <<storeVars, gen, dbVars, job>>

\* ---- inputs
Folders == {"temp"}                          \* folder arguments
UserIds == {<<>>, <<0>>, <<1>>}              \* user_id: None, 0, 1
MaxFiles == 2                                \* entries the disk may hold below
                                             \* the three folders
MetaSuffix == <<".", "m", "e", "t", "a", ".", "j", "s", "o", "n">>
Names ==                                     \* filename arguments: ' 1/',
    {<<" ", "1", "/">>,                      \* '1.meta.json', '/'
     <<"1">> \o MetaSuffix,
     <<"/">>}
Files ==                                     \* the uploaded file: its name
    {[filename |-> <<"a", ".", "j", "s", "o", "n">>,     \* 'a.json' and
      content |-> "A"]}                                  \* its bytes
Metadatas == {None, "tags"}                  \* metadata: None or a dict

\* ---- values
Dir == [kind |-> "dir", data |-> ""]
File(data) == [kind |-> "file", data |-> data]
Raised(exception) == [raised |-> exception]

\* c.isalnum() on the characters file names are made of here
isalnum(c) == c \in {"a", "e", "j", "m", "n", "o", "s", "t", "0", "1"}
keepcharacters == {" ", ".", "_", "-"}

\* the line feed character, and the whitespace str.strip() removes, of the
\* characters used here
newline == "LF"
bullet == "BULLET"                           \* the character U+2022
whitespace == {" ", newline}

RECURSIVE lstrip(_)
lstrip(s) ==
    IF s # <<>> /\ Head(s) \in whitespace THEN lstrip(Tail(s)) ELSE s
RECURSIVE rstrip(_)
rstrip(s) ==
    IF s # <<>> /\ s[Len(s)] \in whitespace
    THEN rstrip(SubSeq(s, 1, Len(s) - 1)) ELSE s
strip(s) == rstrip(lstrip(s))

\* ''.join(c for c in filename if c.isalnum() or c in keepcharacters).strip()
secure_filename(filename) ==
    strip(SelectSeq(filename, LAMBDA c : isalnum(c) \/ c \in keepcharacters))

\* `if folder not in ['resources', 'user_files', 'temp']: folder = 'resources'`
ValidFolder(folder) ==
    IF folder \notin {"resources", "user_files", "temp"} THEN "resources"
    ELSE folder

\* storage_path: the folder, and below it the directory str(user_id)
\* `if user_id:`
StoragePath(folder, user_id) ==
    LET str(n) == <<<<"0">>, <<"1">>>>[n + 1]
    IN <<<<ValidFolder(folder)>>>>
        \o (IF user_id # <<>> /\ user_id[1] # 0 THEN <<str(user_id[1])>>
            ELSE <<>>)

\* os.path.join(storage_path, filename): an empty name gives the path of
\* the directory with a trailing separator, kept as an empty last component
Join(storage_path, filename) == Append(storage_path, filename)

FilePath(filename, folder, user_id) ==
    Join(StoragePath(folder, user_id), secure_filename(filename))

\* os.path.splitext(p)[1]: p from the last dot of its last component on,
\* when some character other than a dot comes before that dot in the
\* component; else the empty string
splitext(p) ==
    LET rfind(c) == IF \E k \in DOMAIN p : p[k] = c
                    THEN CHOOSE k \in DOMAIN p :
                            /\ p[k] = c
                            /\ \A j \in DOMAIN p : p[j] = c => j <= k
                    ELSE 0
        sepIndex == rfind("/")
        dotIndex == rfind(".")
    IN IF /\ dotIndex > sepIndex
          /\ \E k \in (sepIndex + 1)..(dotIndex - 1) : p[k] # "."
       THEN SubSeq(p, dotIndex, Len(p))
       ELSE <<>>

\* f"{file_path}.meta.json"
MetaPath(file_path) ==
    SubSeq(file_path, 1, Len(file_path) - 1)
        \o <<file_path[Len(file_path)] \o MetaSuffix>>

\* os.path.isdir(path); a path with a trailing separator, an empty last
\* component, names the directory before the separator
isdir(d, path) ==
    LET p == IF path[Len(path)] = <<>> THEN SubSeq(path, 1, Len(path) - 1)
             ELSE path
    IN p \in DOMAIN d /\ d[p].kind = "dir"
\* os.path.isfile(path), and whether open(path, 'rb') succeeds; never with
\* a trailing separator
isfile(d, path) ==
    path[Len(path)] # <<>> /\ path \in DOMAIN d /\ d[path].kind = "file"
\* os.path.exists(path)
exists(d, path) == isdir(d, path) \/ isfile(d, path)
\* os.remove(path) of a regular file
remove(d, path) == [q \in DOMAIN d \ {path} |-> d[q]]
\* open(path, 'wb') or open(path, 'w') succeeds: the path names a regular
\* file or nothing, in a directory
CanOpenW(d, path) ==
    /\ path[Len(path)] # <<>>
    /\ ~isdir(d, path)
    /\ isdir(d, SubSeq(path, 1, Len(path) - 1))

\* json.dumps(meta_data): the bytes of the metadata file
MetaJson == "json"

\* ensure_storage_directories()
InitialDisk ==
    [path \in {<<<<"resources">>>>, <<<<"user_files">>>>, <<<<"temp">>>>}
        |-> Dir]

\* no save_file call, no get_file call in flight.  A call in flight holds
\* its arguments and locals, whether the file it has open is still the one
\* its path names (linked), and the bytes of that file once it is not
NoSave == [pc |-> "idle", content |-> "", filename |-> <<>>,
           file_path |-> <<>>, metadata |-> None, linked |-> FALSE,
           data |-> ""]
NoGet == [pc |-> "idle", file_path |-> <<>>, content_type |-> None,
          linked |-> FALSE, shared |-> FALSE, data |-> ""]

\* ---------------------------------------------------- password generator
\* app/utils/security.py.  A password is a sequence of characters.
ascii_lowercase == {"a", "b", "z"}           \* string.ascii_lowercase, in part
ascii_uppercase == {"A", "B", "Z"}           \* string.ascii_uppercase, in part
digits == {"0", "1", "9"}                    \* string.digits, in part
\* string.punctuation, but for the backslash and the backquote
punctuation ==
    {"!", "\"", "#", "$", "%", "&", "'", "(", ")", "*", "+", ",", "-", ".",
     "/", ":", ";", "<", "=", ">", "?", "@", "[", "]", "^", "_",
     "{", "|", "}", "~"}
\* the character class [!@#$%^&*(),.?":{}|<>] of is_valid_password
SpecialClass ==
    {"!", "@", "#", "$", "%", "^", "&", "*", "(", ")", ",", ".", "?", "\"",
     ":", "{", "}", "|", "<", ">"}

MinPasswordLength == 8                       \* `if len(password) < 8`
RequiredKinds == 4                           \* the four secrets.choice calls
MaxPasswordLength == 9                       \* longest password asked for

\* what secrets.choice returns for the remaining positions in the runs
\* explored
FillDraws ==
    {c \in ascii_lowercase \cup ascii_uppercase \cup digits \cup punctuation :
        c \in {"a", "!"}}

\* re.search(r'[...]', password): some character of the class occurs
Search(class, password) == \E k \in DOMAIN password : password[k] \in class

is_valid_password(password) ==
    /\ ~(Len(password) < MinPasswordLength)
    /\ Search(ascii_lowercase, password)
    /\ Search(ascii_uppercase, password)
    /\ Search(digits, password)
    /\ Search(SpecialClass, password)

\* x[i], x[j] = x[j], x[i]
Swap(x, i, j) == [x EXCEPT ![i] = x[j], ![j] = x[i]]

Idle == [pc |-> "idle", length |-> 0, password |-> <<>>, i |-> 0]

\* ---- progress table: inputs and statements
MaxCallers == 2              \* update_progress calls that can be in flight
MaxRows == 2                 \* rows the table can hold
Callers == 1..MaxCallers
\* the ids of the rows of the materias table.  No statement of the
\* application writes to that table: its rows are those the deployment has
\* put there (run_migrations executes the SQL files it finds)
materias == {1}
\* ProgressUpdate values; usuario_id and tema take one value each,
\* materia_id one that is in materias and one that is not
ProgressData ==
    LET Subtemas == {None, "Tri"}            \* subtema is Optional[str]
        \* estado and porcentaje_completado of the updates sent
        Avances ==
            {[estado |-> "en_progreso", porcentaje_completado |-> 50],
             [estado |-> "completado", porcentaje_completado |-> 100]}
    IN {[usuario_id |-> 1, materia_id |-> m, tema |-> "Geo", subtema |-> s,
         estado |-> a.estado,
         porcentaje_completado |-> a.porcentaje_completado] :
            m \in {1, 2}, s \in Subtemas, a \in Avances}

\* SELECT * FROM materias WHERE id = ?
SelectMateria(id) == IF id \in materias THEN <<[id |-> id]>> ELSE <<>>

\* WHERE usuario_id = ? AND materia_id = ? AND tema = ?
\*   AND (subtema = ? OR (subtema IS NULL AND ? IS NULL))
\* a comparison with NULL is not true, so NULL = NULL selects nothing
Where(row, d) ==
    /\ row.usuario_id = d.usuario_id
    /\ row.materia_id = d.materia_id
    /\ row.tema = d.tema
    /\ \/ row.subtema # None /\ d.subtema # None /\ row.subtema = d.subtema
       \/ row.subtema = None /\ d.subtema = None

\* SELECT * FROM progreso WHERE ...: the matching rows in id order
RECURSIVE Select(_, _)
Select(table, d) ==
    IF table = <<>> THEN <<>>
    ELSE IF Where(Head(table), d) THEN <<Head(table)>> \o Select(Tail(table), d)
    ELSE Select(Tail(table), d)

\* cursor.fetchone(): the first row of the result as a one-row sequence, or
\* the empty sequence for None
fetchone(rows) == IF rows = <<>> THEN <<>> ELSE <<Head(rows)>>

\* SELECT * FROM progreso WHERE id = ?
SelectById(table, id) == IF id \in DOMAIN table THEN <<table[id]>> ELSE <<>>

\* id INTEGER PRIMARY KEY AUTOINCREMENT on a table no row is deleted from
lastrowid(table) == Len(table) + 1

\* INSERT INTO progreso (usuario_id, materia_id, tema, subtema, estado,
\*                       porcentaje_completado) VALUES (?, ?, ?, ?, ?, ?)
Insert(table, d) ==
    Append(table, [id |-> lastrowid(table), usuario_id |-> d.usuario_id,
                   materia_id |-> d.materia_id, tema |-> d.tema,
                   subtema |-> d.subtema, estado |-> d.estado,
                   porcentaje_completado |-> d.porcentaje_completado])

\* an UPDATE without its WHERE clause
UpdateAll(table, d, id) ==
    [i \in DOMAIN table |->
        [table[i] EXCEPT !.estado = d.estado,
                         !.porcentaje_completado = d.porcentaje_completado]]

\* UPDATE progreso SET estado = ?, porcentaje_completado = ? WHERE id = ?
Update(table, d, id) ==
    [i \in DOMAIN table |->
        IF table[i].id = id
        THEN [table[i] EXCEPT !.estado = d.estado,
                              !.porcentaje_completado = d.porcentaje_completado]
        ELSE table[i]]

\* the place of the ProgressUpdate of a caller that has made no call
NoData ==
    [usuario_id |-> 0, materia_id |-> 0, tema |-> "", subtema |-> None,
     estado |-> "", porcentaje_completado |-> 0]

\* a caller that has made no call.  route: the call is one of the route;
\* rows: what the last SELECT found; snapshot: the table as the read
\* transaction of the connection sees it, <<>> when none is open; stale:
\* another connection has committed a change since that transaction began;
\* pending: the table as the uncommitted write of the connection leaves it;
\* written: that write changes the database; ret, error: the row returned
\* or the exception raised, as a sequence of one, empty while there is none
NoUpsert ==
    [pc |-> "idle", route |-> FALSE, data |-> NoData, rows |-> <<>>,
     existing_progress |-> <<>>, snapshot |-> <<>>, stale |-> FALSE,
     pending |-> <<>>, written |-> FALSE, id |-> 0, ret |-> <<>>,
     error |-> <<>>]

\* sqlite3.OperationalError of a statement that cannot get the write lock
Locked == [type |-> "OperationalError", msg |-> "database is locked"]

\* ---- content generation: inputs and functions
\* A str is the sequence of its characters.
\* the task types process_task has a branch for
GeneratorTaskTypes ==
    {"generate_lesson", "generate_exercises", "generate_evaluation",
     "recommend_resources"}

\* the task types the route handlers pass to queue.enqueue
RouteTaskTypes == {"generacion_contenido", "evaluacion_inicial",
                   "analisis_progreso"}

\* data["subject"] values
Subjects ==
    {<<"Á", "l", "g", "e", "b", "r", "a">>,
     <<"Q", "u", "í", "m", "i", "c", "a">>,
     <<"G", "r", "a", "m", "á", "t", "i", "c", "a">>,
     <<"H", "i", "s", "t", "o", "r", "i", "a">>,
     <<"G", "E", "O", "G", "R", "A", "F", "Í", "A">>,
     <<"A", "r", "t", "e">>,
     <<>>}

\* the upper-case letters of Spanish text and their lower-case forms
UpperCase ==
    ("A" :> "a") @@ ("B" :> "b") @@ ("C" :> "c") @@ ("D" :> "d") @@
    ("E" :> "e") @@ ("F" :> "f") @@ ("G" :> "g") @@ ("H" :> "h") @@
    ("I" :> "i") @@ ("J" :> "j") @@ ("K" :> "k") @@ ("L" :> "l") @@
    ("M" :> "m") @@ ("N" :> "n") @@ ("O" :> "o") @@ ("P" :> "p") @@
    ("Q" :> "q") @@ ("R" :> "r") @@ ("S" :> "s") @@ ("T" :> "t") @@
    ("U" :> "u") @@ ("V" :> "v") @@ ("W" :> "w") @@ ("X" :> "x") @@
    ("Y" :> "y") @@ ("Z" :> "z") @@ ("Á" :> "á") @@ ("É" :> "é") @@
    ("Í" :> "í") @@ ("Ó" :> "ó") @@ ("Ú" :> "ú") @@ ("Ñ" :> "ñ") @@
    ("Ü" :> "ü")

\* the letters of Spanish text: the characters c.isalpha() holds for
Letters ==
    {"A", "B", "C", "D", "E", "F", "G", "H", "I", "J", "K", "L",
     "M", "N", "O", "P", "Q", "R", "S", "T", "U", "V", "W", "X",
     "Y", "Z", "Á", "É", "Í", "Ó", "Ú", "Ñ", "Ü", "a", "b", "c",
     "d", "e", "f", "g", "h", "i", "j", "k", "l", "m", "n", "o",
     "p", "q", "r", "s", "t", "u", "v", "w", "x", "y", "z", "á",
     "é", "í", "ó", "ú", "ñ", "ü"}

\* what the LLM API call does: text it returns, or str(e) of what it raises
LLMOutcomes ==
    {[ok |-> TRUE, text |->
        <<"1", ".", " ", "E", "j", "e", "r", "c", "i", "c", "i", "o">>],
     [ok |-> TRUE, text |->
        <<"1", ".", " ", "a", newline, "S", "o", "l", "u", "c", "i", "ó",
          "n", ":", " ", "b", newline, "c">>],
     [ok |-> TRUE, text |->
        <<"5">>],
     [ok |-> FALSE, text |->
        <<"a", "p", "i", " ", "d", "o", "w", "n">>],
     [ok |-> FALSE, text |->
        <<>>],
     [ok |-> FALSE, text |->
        <<"x", newline, "5">>]}

\* s.lower()
lower(subject) ==
    [i \in DOMAIN subject |->
        IF subject[i] \in DOMAIN UpperCase THEN UpperCase[subject[i]]
        ELSE subject[i]]

\* term in subject_lower
In(term, subject_lower) ==
    \E i \in 1..(Len(subject_lower) - Len(term) + 1) :
        SubSeq(subject_lower, i, i + Len(term) - 1) = term

\* any(term in subject_lower for term in terms)
any(terms, subject_lower) == \E term \in terms : In(term, subject_lower)

\* ContentGenerator._map_subject_to_agent
_map_subject_to_agent(subject) ==
    LET subject_lower == lower(subject)
        MathematicsTerms ==
            {<<"m", "a", "t", "e", "m", "á", "t", "i", "c", "a">>,
             <<"á", "l", "g", "e", "b", "r", "a">>,
             <<"c", "á", "l", "c", "u", "l", "o">>,
             <<"g", "e", "o", "m", "e", "t", "r", "í", "a">>}
        ScienceTerms ==
            {<<"c", "i", "e", "n", "c", "i", "a">>,
             <<"f", "í", "s", "i", "c", "a">>,
             <<"q", "u", "í", "m", "i", "c", "a">>,
             <<"b", "i", "o", "l", "o", "g", "í", "a">>}
        LanguageTerms ==
            {<<"l", "e", "n", "g", "u", "a", "j", "e">>,
             <<"l", "i", "t", "e", "r", "a", "t", "u", "r", "a">>,
             <<"g", "r", "a", "m", "á", "t", "i", "c", "a">>,
             <<"c", "o", "m", "u", "n", "i", "c", "a", "c", "i", "ó", "n">>}
        HistoryTerms ==
            {<<"h", "i", "s", "t", "o", "r", "i", "a">>,
             <<"g", "e", "o", "g", "r", "a", "f", "í", "a">>,
             <<"c", "i", "v", "i", "s", "m", "o">>}
    IN IF any(MathematicsTerms, subject_lower) THEN "mathematics"
       ELSE IF any(ScienceTerms, subject_lower) THEN "science"
       ELSE IF any(LanguageTerms, subject_lower) THEN "language"
       ELSE IF any(HistoryTerms, subject_lower) THEN "history"
       ELSE "coordinator"

\* raise ValueError(msg); the message is kept as its fixed part and the
\* value formatted into it
ValueError(text, value) == [raised |-> "ValueError", msg |-> <<text, value>>]

\* what indexing a str past its end raises
IndexError == [raised |-> "IndexError", msg |-> <<"string index out of range">>]

\* create_agent(agent_type): the class of the agent it returns
create_agent(agent_type) ==
    IF agent_type = "coordinator" THEN [agent |-> "CoordinatorAgent"]
    ELSE IF agent_type \in {"mathematics", "science", "language"}
        THEN [agent |-> "SubjectAgent"]
    ELSE IF agent_type = "feedback" THEN [agent |-> "FeedbackAgent"]
    ELSE IF agent_type = "content" THEN [agent |-> "ContentAgent"]
    ELSE ValueError("Unknown agent type: ", agent_type)

\* process_task(task) up to the await of the LLM API call: the agent whose
\* process_message runs, or the exception raised before
process_task(task_type, subject) ==
    IF task_type \in {"generate_lesson", "recommend_resources"}
    THEN create_agent("content")
    ELSE IF task_type = "generate_exercises"
    THEN create_agent(_map_subject_to_agent(subject))
    ELSE IF task_type = "generate_evaluation"
    THEN create_agent("feedback")
    ELSE ValueError("Unknown task type: ", task_type)

\* BaseAgent.process_message from the API call on: response_text, or the
\* apology with str(e) formatted into it
process_message(outcome) ==
    IF outcome.ok THEN [returned |-> outcome.text]
    ELSE [returned |->
        <<"L", "o", " ", "s", "i", "e", "n", "t", "o", ",", " ", "h", "e",
          " ", "t", "e", "n", "i", "d", "o", " ", "u", "n", " ", "p", "r",
          "o", "b", "l", "e", "m", "a", " ", "a", "l", " ", "p", "r", "o",
          "c", "e", "s", "a", "r", " ", "t", "u", " ", "m", "e", "n", "s",
          "a", "j", "e", ".", " ", "D", "e", "t", "a", "l", "l", "e", "s",
          ":", " ">>
            \o outcome.text]

\* ---- the parsers of the generator methods
\* text.split(sep) for a one-character sep
RECURSIVE split(_, _)
split(text, sep) ==
    IF \A i \in DOMAIN text : text[i] # sep THEN <<text>>
    ELSE LET i == CHOOSE k \in DOMAIN text :
                    text[k] = sep /\ \A j \in 1..(k - 1) : text[j] # sep
         IN <<SubSeq(text, 1, i - 1)>>
                \o split(SubSeq(text, i + 1, Len(text)), sep)

\* line.startswith(prefixes) or (line[0].isdigit() and line[1] in
\* ['.', ')', ':']) on a non-empty line: "yes", "no", or "IndexError" when
\* line[1] is read from a line of one character
Header(line, prefixes) ==
    IF \E prefix \in prefixes :
            /\ Len(line) >= Len(prefix)
            /\ SubSeq(line, 1, Len(prefix)) = prefix
    THEN "yes"
    ELSE IF line[1] \notin {"0", "1", "2", "3", "4", "5", "6", "7", "8", "9"}
    THEN "no"
    ELSE IF Len(line) < 2 THEN "IndexError"
    ELSE IF line[2] \in {".", ")", ":"} THEN "yes"
    ELSE "no"

\* ContentGenerator._parse_lesson_sections
_parse_lesson_sections(text) ==
    LET LessonTerms ==
            <<[section |-> "introduction", terms |->
                {<<"i", "n", "t", "r", "o", "d", "u", "c", "c", "i", "ó",
                    "n">>,
                 <<"o", "b", "j", "e", "t", "i", "v", "o", "s">>,
                 <<"i", "n", "t", "r", "o", "d", "u", "c", "t", "i", "o",
                    "n">>}],
              [section |-> "concepts", terms |->
                {<<"c", "o", "n", "c", "e", "p", "t", "o", "s">>,
                 <<"e", "x", "p", "l", "i", "c", "a", "c", "i", "ó", "n">>,
                 <<"t", "e", "o", "r", "í", "a">>,
                 <<"c", "o", "n", "c", "e", "p", "t", "s">>}],
              [section |-> "examples", terms |->
                {<<"e", "j", "e", "m", "p", "l", "o">>,
                 <<"m", "u", "e", "s", "t", "r", "a">>,
                 <<"e", "x", "a", "m", "p", "l", "e", "s">>}],
              [section |-> "exercises", terms |->
                {<<"e", "j", "e", "r", "c", "i", "c", "i", "o">>,
                 <<"p", "r", "á", "c", "t", "i", "c", "a">>,
                 <<"e", "x", "e", "r", "c", "i", "s", "e">>}],
              [section |-> "summary", terms |->
                {<<"r", "e", "s", "u", "m", "e", "n">>,
                 <<"c", "o", "n", "c", "l", "u", "s", "i", "ó", "n">>,
                 <<"s", "u", "m", "m", "a", "r", "y">>}],
              [section |-> "resources", terms |->
                {<<"r", "e", "c", "u", "r", "s", "o", "s">>,
                 <<"r", "e", "c", "o", "m", "e", "n", "d", "a", "c", "i",
                    "o", "n", "e", "s">>,
                 <<"r", "e", "s", "o", "u", "r", "c", "e", "s">>}]>>
        SectionOf(lower_line) ==
            IF \E k \in DOMAIN LessonTerms : any(LessonTerms[k].terms, lower_line)
            THEN LessonTerms[CHOOSE k \in DOMAIN LessonTerms :
                    /\ any(LessonTerms[k].terms, lower_line)
                    /\ \A j \in 1..(k - 1) : ~any(LessonTerms[j].terms, lower_line)
                 ].section
            ELSE None
        RECURSIVE LessonLoop(_, _)
        LessonLoop(lines, st) ==
            IF lines = <<>> THEN st
            ELSE LET line == strip(Head(lines))
                     section == SectionOf(lower(line))
                 IN IF line = <<>> THEN LessonLoop(Tail(lines), st)
                    ELSE IF section # None
                    THEN LessonLoop(Tail(lines),
                            [sections |-> [st.sections EXCEPT ![section] =
                                                @ \o line \o <<newline>>],
                             current_section |-> section])
                    ELSE IF st.current_section # None
                    THEN LessonLoop(Tail(lines),
                            [st EXCEPT !.sections[st.current_section] =
                                            @ \o line \o <<newline>>])
                    ELSE LessonLoop(Tail(lines), st)
        st == LessonLoop(split(text, newline),
                [sections |-> [introduction |-> <<>>, concepts |-> <<>>,
                               examples |-> <<>>, exercises |-> <<>>,
                               summary |-> <<>>, resources |-> <<>>],
                 current_section |-> None])
    IN [returned |-> [key \in DOMAIN st.sections |-> strip(st.sections[key])]]

\* ContentGenerator._parse_exercises: the list, or the IndexError
_parse_exercises(text, expected_count) ==
    LET RECURSIVE ExercisesLoop(_, _)
        ExercisesLoop(lines, st) ==
            IF lines = <<>> THEN st
            ELSE LET line == strip(Head(lines))
                     rest == Tail(lines)
                     header == Header(line, {<<"E", "j", "e", "r", "c",
                                                "i", "c", "i", "o">>,
                                             <<"E", "x", "e", "r", "c",
                                                "i", "s", "e">>})
                 IN IF line = <<>> THEN ExercisesLoop(rest, st)
                    ELSE IF header = "IndexError" THEN [st EXCEPT !.raised = TRUE]
                    ELSE IF header = "yes"
                    THEN ExercisesLoop(rest,
                            [st EXCEPT !.exercises = @ \o st.current_exercise,
                                       !.current_exercise =
                                            <<[question |-> line, solution |-> <<>>]>>,
                                       !.current_section = "question"])
                    ELSE IF st.current_exercise = <<>> THEN ExercisesLoop(rest, st)
                    ELSE IF any({<<"s", "o", "l", "u", "c", "i", "ó", "n">>,
                                 <<"s", "o", "l", "u", "t", "i", "o", "n">>,
                                 <<"r", "e", "s", "p", "u", "e", "s", "t",
                                    "a">>}, lower(line))
                    THEN ExercisesLoop(rest, [st EXCEPT !.current_section = "solution"])
                    ELSE IF /\ st.current_section = "question"
                            /\ st.current_exercise[1].solution = <<>>
                    THEN ExercisesLoop(rest,
                            [st EXCEPT !.current_exercise[1].question =
                                            @ \o <<newline>> \o line])
                    ELSE IF st.current_section = "solution"
                    THEN ExercisesLoop(rest,
                            [st EXCEPT !.current_exercise[1].solution =
                                            @ \o <<newline>> \o line])
                    ELSE ExercisesLoop(rest, st)
        st == ExercisesLoop(split(text, newline),
                [exercises |-> <<>>, current_exercise |-> <<>>,
                 current_section |-> None, raised |-> FALSE])
        exercises == st.exercises \o st.current_exercise
    IN IF st.raised THEN IndexError
       ELSE [returned |->
                [i \in DOMAIN exercises |->
                    [question |-> strip(exercises[i].question),
                     solution |-> strip(exercises[i].solution)]]]

\* ContentGenerator._parse_questions: the list, or the IndexError
_parse_questions(text) ==
    LET RECURSIVE QuestionsLoop(_, _)
        QuestionsLoop(lines, st) ==
            IF lines = <<>> THEN st
            ELSE LET line == strip(Head(lines))
                     rest == Tail(lines)
                     lower_line == lower(line)
                     header == Header(line, {<<"P", "r", "e", "g", "u",
                                                "n", "t", "a">>,
                                             <<"Q", "u", "e", "s", "t",
                                                "i", "o", "n">>})
                 IN IF line = <<>> THEN QuestionsLoop(rest, st)
                    ELSE IF header = "IndexError" THEN [st EXCEPT !.raised = TRUE]
                    ELSE IF header = "yes"
                    THEN QuestionsLoop(rest,
                            [st EXCEPT !.questions = @ \o st.current_question,
                                       !.current_question =
                                            <<[text |-> line, options |-> <<>>,
                                               correct_answer |-> <<>>,
                                               explanation |-> <<>>]>>,
                                       !.current_section = "text"])
                    ELSE IF st.current_question = <<>> THEN QuestionsLoop(rest, st)
                    ELSE IF /\ line[1] \in Letters
                            /\ Len(line) > 1
                            /\ line[2] \in {".", ")", ":"}
                    THEN QuestionsLoop(rest,
                            [st EXCEPT !.current_question[1].options = Append(@, line),
                                       !.current_section = "options"])
                    ELSE IF \/ In(<<"r", "e", "s", "p", "u", "e", "s", "t",
                                    "a">>, lower_line)
                            \/ In(<<"a", "n", "s", "w", "e", "r">>, lower_line)
                    THEN QuestionsLoop(rest,
                            [st EXCEPT !.current_section = "correct_answer"])
                    ELSE IF \/ In(<<"e", "x", "p", "l", "i", "c", "a", "c",
                                    "i", "ó", "n">>, lower_line)
                            \/ In(<<"e", "x", "p", "l", "a", "n", "a", "t",
                                    "i", "o", "n">>, lower_line)
                    THEN QuestionsLoop(rest,
                            [st EXCEPT !.current_section = "explanation"])
                    ELSE IF /\ st.current_section = "text"
                            /\ st.current_question[1].options = <<>>
                    THEN QuestionsLoop(rest,
                            [st EXCEPT !.current_question[1].text =
                                            @ \o <<newline>> \o line])
                    ELSE IF st.current_section = "correct_answer"
                    THEN QuestionsLoop(rest,
                            [st EXCEPT !.current_question[1].correct_answer =
                                            @ \o line \o <<" ">>])
                    ELSE IF st.current_section = "explanation"
                    THEN QuestionsLoop(rest,
                            [st EXCEPT !.current_question[1].explanation =
                                            @ \o line \o <<" ">>])
                    ELSE QuestionsLoop(rest, st)
        st == QuestionsLoop(split(text, newline),
                [questions |-> <<>>, current_question |-> <<>>,
                 current_section |-> None, raised |-> FALSE])
        questions == st.questions \o st.current_question
    IN IF st.raised THEN IndexError
       ELSE [returned |->
                [i \in DOMAIN questions |->
                    [text |-> strip(questions[i].text),
                     options |-> questions[i].options,
                     correct_answer |-> strip(questions[i].correct_answer),
                     explanation |-> strip(questions[i].explanation)]]]

\* ContentGenerator._parse_resources: the list, or the IndexError
_parse_resources(text) ==
    LET AfterColon(line) ==
            LET i == CHOOSE k \in DOMAIN line :
                        line[k] = ":" /\ \A j \in 1..(k - 1) : line[j] # ":"
            IN SubSeq(line, i + 1, Len(line))
        RECURSIVE lstrip_chars(_, _)
        lstrip_chars(line, chars) ==
            IF line # <<>> /\ Head(line) \in chars THEN lstrip_chars(Tail(line), chars)
            ELSE line
        RECURSIVE ResourcesLoop(_, _)
        ResourcesLoop(lines, st) ==
            IF lines = <<>> THEN st
            ELSE LET line == strip(Head(lines))
                     rest == Tail(lines)
                     lower_line == lower(line)
                     header == Header(line, {<<"-", " ">>, <<"*", " ">>, <<bullet, " ">>})
                 IN IF line = <<>> THEN ResourcesLoop(rest, st)
                    ELSE IF header = "IndexError" THEN [st EXCEPT !.raised = TRUE]
                    ELSE IF header = "yes"
                    THEN ResourcesLoop(rest,
                            [st EXCEPT !.resources = @ \o st.current_resource,
                                       !.current_resource =
                                            <<[title |-> lstrip_chars(line,
                                                    {"-", " ", "*", bullet, "0", "1", "2",
                                                     "3", "4", "5", "6", "7", "8", "9",
                                                     ".", ")"}),
                                               type |-> <<>>,
                                               description |-> <<>>]>>])
                    ELSE IF st.current_resource = <<>> THEN ResourcesLoop(rest, st)
                    ELSE IF \/ In(<<"t", "i", "p", "o", ":">>, lower_line)
                            \/ In(<<"t", "y", "p", "e", ":">>, lower_line)
                    THEN ResourcesLoop(rest,
                            [st EXCEPT !.current_resource[1].type =
                                            strip(AfterColon(line))])
                    ELSE IF \/ In(<<"d", "e", "s", "c", "r", "i", "p", "c",
                                    "i", "ó", "n", ":">>, lower_line)
                            \/ In(<<"d", "e", "s", "c", "r", "i", "p", "t",
                                    "i", "o", "n", ":">>, lower_line)
                    THEN ResourcesLoop(rest,
                            [st EXCEPT !.current_resource[1].description =
                                            strip(AfterColon(line))])
                    ELSE IF st.current_resource[1].type = <<>>
                    THEN ResourcesLoop(rest,
                            [st EXCEPT !.current_resource[1].type = line])
                    ELSE ResourcesLoop(rest,
                            [st EXCEPT !.current_resource[1].description =
                                            @ \o <<" ">> \o line])
        st == ResourcesLoop(split(text, newline),
                [resources |-> <<>>, current_resource |-> <<>>,
                 raised |-> FALSE])
    IN IF st.raised THEN IndexError
       ELSE [returned |-> st.resources \o st.current_resource]

\* the generator method of the branch from the return of process_message
\* on: the dict it returns, or the exception its parser raises.  The task's
\* data holds the subject only: topic, level, learning_style, topics take
\* the defaults of process_task.
Generated(task_type, subject, response) ==
    LET topic == <<>>
        level == "intermediate"
        parsed == IF task_type = "generate_lesson"
                  THEN _parse_lesson_sections(response)
                  ELSE IF task_type = "generate_exercises"
                  THEN _parse_exercises(response, 5)
                  ELSE IF task_type = "generate_evaluation"
                  THEN _parse_questions(response)
                  ELSE _parse_resources(response)
    IN IF "raised" \in DOMAIN parsed THEN parsed
       ELSE IF task_type = "generate_lesson"
       THEN [returned |->
                [subject |-> subject, topic |-> topic, level |-> level,
                 learning_style |-> None, content |-> response,
                 sections |-> parsed.returned]]
       ELSE IF task_type = "generate_exercises"
       THEN [returned |->
                [subject |-> subject, topic |-> topic, level |-> level,
                 exercises |-> parsed.returned, raw_content |-> response]]
       ELSE IF task_type = "generate_evaluation"
       THEN [returned |->
                [subject |-> subject, topics |-> <<topic>>, level |-> level,
                 questions |-> parsed.returned, raw_content |-> response]]
       ELSE [returned |->
                [subject |-> subject, topic |-> topic, level |-> level,
                 resources |-> parsed.returned, raw_content |-> response]]

NoJob == [pc |-> "idle", task_type |-> None, subject |-> <<>>,
          agent |-> None, llm |-> "none", error |-> <<>>, raised |-> "none",
          record |-> PendingRecord(Stamp)]

Init ==
    /\ tasks = <<>>
    /\ results = <<>>
    /\ _running = FALSE
    /\ _worker_task = 0
    /\ workers = <<>>
    /\ getters = <<>>
    /\ ready = <<>>
    /\ stopWait = {}
    /\ atStop = {}
    /\ reply = [kind |-> "none", id |-> 0]
    /\ started = <<>>
    /\ calls = [i \in TaskIds |->           \* no handler call made yet
                   [n |-> 0, outcome |-> "none", value |-> None]]
    /\ disk = InitialDisk
    /\ stored = <<>>
    /\ out = [none |-> TRUE]
    /\ saving = NoSave
    /\ getting = NoGet
    /\ gen = Idle
    /\ progreso = <<>>
    /\ upsert = [c \in Callers |-> NoUpsert]
    /\ overlapped = FALSE
    /\ job = NoJob
    /\ app = [up |-> FALSE, queue_service |-> None, agent_coordinator |-> None]


\* ------------------------------------------------------------ operations
\* an enqueue that puts the task on the FIFO and yields to the event loop
\* before it has stored the result record
EnqueueWithoutRecord(task_type, task_id) ==
    /\ task_id \in TaskIds
    /\ tasks' = Append(tasks, NewTask(task_id, task_type))
    /\ IF getters # <<>>
       THEN /\ getters' = Tail(getters)
            /\ workers' = [workers EXCEPT ![Head(getters)].fut = "woken"]
            /\ ready' = CallSoon(ready, "get", Head(getters))
       ELSE UNCHANGED <<getters, workers, ready>>
    /\ UNCHANGED <<results, _running, _worker_task, stopWait, reply, started,
                   calls>>
    /\ UNCHANGED <<atStop, queueFrame>>

\* an enqueue whose put lands twice on the FIFO
EnqueueTwice(task_type, task_id) ==
    /\ task_id \in TaskIds
    /\ tasks' = tasks \o <<NewTask(task_id, task_type),
                           NewTask(task_id, task_type)>>
    /\ results' = SetItem(results, task_id, PendingRecord(Stamp))
    /\ IF getters # <<>>
       THEN /\ getters' = Tail(getters)
            /\ workers' = [workers EXCEPT ![Head(getters)].fut = "woken"]
            /\ ready' = CallSoon(ready, "get", Head(getters))
       ELSE UNCHANGED <<getters, workers, ready>>
    /\ UNCHANGED <<_running, _worker_task, stopWait, reply, started, calls>>
    /\ UNCHANGED <<atStop, queueFrame>>

\* enqueue with task_id the value uuid4 returned: put on an unbounded
\* asyncio.Queue does not suspend, so the task and its record appear in one
\* step.  put_nowait wakes the get that has waited longest (_wakeup_next): its
\* task becomes ready and takes the item when the event loop runs it
Enqueue(task_type, task_id) ==
    /\ task_id \in TaskIds
    /\ ~Full(tasks)
    /\ LET timestamp == Stamp
       IN /\ tasks' = Append(tasks, NewTask(task_id, task_type))
          /\ results' = SetItem(results, task_id, PendingRecord(timestamp))
    /\ IF getters # <<>>
       THEN /\ getters' = Tail(getters)
            /\ workers' = [workers EXCEPT ![Head(getters)].fut = "woken"]
            /\ ready' = CallSoon(ready, "get", Head(getters))
       ELSE UNCHANGED <<getters, workers, ready>>
    /\ UNCHANGED <<_running, _worker_task, stopWait, reply, started, calls>>
    /\ UNCHANGED <<atStop, queueFrame>>

\* what get_task_result returns: a fresh not_found dict, or the dict object
\* that self.results holds under task_id, itself and not a copy of it
Lookup(task_id) ==
    IF task_id \notin DOMAIN results
    THEN [kind |-> "not_found", id |-> 0]
    ELSE [kind |-> "record", id |-> task_id]

\* a dict that answers for every identifier as if its task were queued
NotFoundAsPending == [status |-> "pending", result |-> None]

\* the dict get_task_result builds for an unknown identifier
NotFound == [status |-> "not_found", result |-> None]

\* what the holder of a returned object reads in it now
Deref(r) == IF r.kind = "record" THEN results[r.id] ELSE NotFound

\* fastapi.status.HTTP_404_NOT_FOUND
HTTP_404_NOT_FOUND == 404

\* a raised fastapi.HTTPException
HTTPException(status_code, detail) ==
    [status_code |-> status_code, detail |-> detail]

\* GET /task/{task_id}: the record, or the exception the route raises
get_task_status(task_id) ==
    LET result == Deref(Lookup(task_id))
    IN IF result.status = "not_found"
       THEN HTTPException(HTTP_404_NOT_FOUND, "Tarea no encontrada")
       ELSE result

GetTaskResult(task_id) ==
    /\ reply' = Lookup(task_id)
    /\ UNCHANGED <<tasks, getters, results, _running, _worker_task, workers,
                   ready, stopWait, started, calls>>
    /\ UNCHANGED <<atStop, queueFrame>>

\* create_task makes the first step of the new coroutine ready
StartWorker(process_func) ==
    /\ IF _running
       THEN UNCHANGED <<_running, _worker_task, workers, ready>>
       ELSE /\ Len(workers) < MaxWorkers
            /\ _running' = TRUE
            /\ workers' = Append(workers, NewWorker(process_func))
            /\ _worker_task' = Len(workers) + 1
            /\ ready' = CallSoon(ready, "step", Len(workers) + 1)
    /\ UNCHANGED <<tasks, getters, results, stopWait, reply, started, calls>>
    /\ UNCHANGED <<atStop, queueFrame>>

\* stop_worker.  cancel() does nothing to a task that is done, and awaiting
\* such a task does not suspend: the call returns in this step.  Else the
\* worker's next step begins with CancelledError and the call is suspended
\* until the worker task is done
StopWorker ==
    /\ IF ~_running
       THEN UNCHANGED <<_running, workers, ready, stopWait, atStop>>
       ELSE /\ _running' = FALSE
            /\ atStop' = {tasks[k].id : k \in DOMAIN tasks}
            /\ IF _worker_task # 0 /\ workers[_worker_task].pc # "done"
               THEN /\ workers' =
                        [workers EXCEPT ![_worker_task].must_cancel = TRUE]
                    /\ ready' = Wake(ready, "step", _worker_task)
                    /\ stopWait' = stopWait \cup {_worker_task}
               ELSE UNCHANGED <<workers, ready, stopWait>>
    /\ UNCHANGED <<tasks, getters, results, _worker_task, reply, started,
                   calls>>
    /\ UNCHANGED queueFrame

\* the event loop resumes the stop_worker call that awaited worker w:
\* `except asyncio.CancelledError: pass`, the log line, return
StopReturn(w) ==
    /\ ready # <<>>
    /\ Head(ready) = Handle("stop", w)
    /\ ready' = Tail(ready)
    /\ stopWait' = stopWait \ {w}
    /\ UNCHANGED <<tasks, getters, results, _running, _worker_task, workers,
                   reply, started, calls>>
    /\ UNCHANGED <<atStop, queueFrame>>

\* ------------------------------------------------------------ the worker
\* the coroutine of worker w returns (the loop condition is false, `break`,
\* or the task was cancelled before it ran): its frame is gone, and the
\* stop_worker call awaiting the task becomes ready
Finish(w, q) ==
    /\ workers' = [workers EXCEPT ![w].pc = "done",
                                  ![w].process_func = None,
                                  ![w].task = NoTask,
                                  ![w].must_cancel = FALSE,
                                  ![w].fut = IF @ = "done" THEN "none" ELSE @]
    /\ ready' = IF w \in stopWait THEN CallSoon(q, "stop", w) ELSE q

\* `while self._running:` and, when it holds, wait_for up to `await waiter`:
\* tasks.get() is wrapped in a task of its own, whose first step is made
\* ready, and the worker is suspended
Loop(w, q) ==
    IF _running
    THEN /\ workers' = [workers EXCEPT ![w].pc = "waiting",
                                       ![w].task = NoTask,
                                       ![w].must_cancel = FALSE,
                                       ![w].fut = "new",
                                       ![w].fut_must_cancel = FALSE]
         /\ ready' = CallSoon(q, "get", w)
    ELSE Finish(w, q)

\* the handler call for task_id ends with outcome o (thrown: with the
\* CancelledError stop_worker's cancel() threw into it), res and cs being
\* the records and calls when it ends: lines 133-163
Ends(w, task_id, o, thrown, res, cs, q) ==
    LET now == Stamp
    IN CASE o.kind = "return" ->
              /\ results' = [res EXCEPT
                    ![task_id] = MarkCompleted(res[task_id], o.value, now)]
              /\ calls' = [cs EXCEPT ![task_id].outcome = "returned",
                                     ![task_id].value = o.value]
              /\ Loop(w, q)
         [] o.kind = "raise" ->
              /\ results' = [res EXCEPT
                    ![task_id] = MarkFailed(res[task_id], o.value, now)]
              /\ calls' = [cs EXCEPT ![task_id].outcome = "raised",
                                     ![task_id].value = o.value]
              /\ Loop(w, q)
         [] o.kind = "cancelled" ->
              /\ results' = res
              /\ calls' = [cs EXCEPT ![task_id].outcome =
                              IF thrown THEN "cancelled" ELSE "raised_base"]
              /\ Finish(w, q)

\* lines 120-131: the status update and the handler call, up to the
\* handler's first await or, when it awaits nothing, to its end and on to
\* the worker's next suspension
Dispatch(w, task, o, q) ==
    LET now == Stamp
        processing == [results EXCEPT
                         ![task.id] = MarkProcessing(results[task.id], now)]
        called == [calls EXCEPT ![task.id].n = @ + 1]
    IN /\ started' = Append(started, task.id)
       /\ atStop' = atStop \ {task.id}
       /\ IF o.kind = "await"
          THEN /\ results' = processing
               /\ calls' = called
               /\ workers' = [workers EXCEPT
                                ![w].pc = "handling",
                                ![w].task = [task EXCEPT !.status = "processing"],
                                ![w].must_cancel = FALSE,
                                ![w].fut = "none"]
               /\ ready' = q
          ELSE Ends(w, task.id, o, FALSE, processing, called, q)

\* the event loop runs the first step of the coroutine: a task cancelled
\* before it ran never runs
WorkerBegin(w) ==
    /\ ready # <<>>
    /\ Head(ready) = Handle("step", w)
    /\ workers[w].pc = "created"
    /\ IF workers[w].must_cancel
       THEN Finish(w, Tail(ready))
       ELSE Loop(w, Tail(ready))
    /\ UNCHANGED <<tasks, getters, results, _running, _worker_task, stopWait,
                   reply, started, calls>>
    /\ UNCHANGED <<atStop, queueFrame>>

\* the event loop runs a step of the task that wraps tasks.get().  If the
\* task has been cancelled, CancelledError comes out of get, which hands an
\* item it was woken for to the next waiting get.  Else get takes the head
\* of the FIFO, or waits behind the gets already waiting when the FIFO is
\* empty.  When the task ends, its done-callback is made ready
GetStep(w) ==
    /\ ready # <<>>
    /\ Head(ready) = Handle("get", w)
    /\ LET q == Tail(ready)
           waited == workers[w].pc \in {"waiting", "timed_out", "cancelled"}
           ended == IF waited THEN CallSoon(q, "cb", w) ELSE q
       IN IF workers[w].fut_must_cancel
          THEN IF workers[w].fut = "woken" /\ tasks # <<>> /\ getters # <<>>
               THEN /\ getters' = Tail(getters)
                    /\ workers' = [workers EXCEPT
                                     ![w].fut = "none",
                                     ![w].fut_must_cancel = FALSE,
                                     ![Head(getters)].fut = "woken"]
                    /\ ready' = IF waited
                                THEN CallSoon(CallSoon(q, "get", Head(getters)),
                                              "cb", w)
                                ELSE CallSoon(q, "get", Head(getters))
                    /\ UNCHANGED tasks
               ELSE /\ workers' = [workers EXCEPT
                                     ![w].fut = "none",
                                     ![w].fut_must_cancel = FALSE]
                    /\ ready' = ended
                    /\ UNCHANGED <<tasks, getters>>
          ELSE IF tasks = <<>>
               THEN /\ getters' = Append(getters, w)
                    /\ workers' = [workers EXCEPT ![w].fut = "blocked"]
                    /\ ready' = q
                    /\ UNCHANGED tasks
               ELSE /\ tasks' = QueueGet(tasks).rest
                    /\ workers' = [workers EXCEPT
                                     ![w].fut = "done",
                                     ![w].task = QueueGet(tasks).item]
                    /\ ready' = ended
                    /\ UNCHANGED getters
    /\ UNCHANGED <<results, _running, _worker_task, stopWait, reply, started,
                   calls>>
    /\ UNCHANGED <<atStop, queueFrame>>

\* the event loop runs _release_waiter, the done-callback of the task that
\* wraps tasks.get(): the waiter the worker awaits gets its result, which
\* makes the worker ready, unless the waiter is done already
ReleaseWaiter(w) ==
    /\ ready # <<>>
    /\ Head(ready) = Handle("cb", w)
    /\ ready' = IF workers[w].pc \in {"waiting", "timed_out", "cancelled"}
                THEN Wake(Tail(ready), "step", w)
                ELSE Tail(ready)
    /\ UNCHANGED <<tasks, getters, results, _running, _worker_task, workers,
                   stopWait, reply, started, calls>>
    /\ UNCHANGED <<atStop, queueFrame>>

\* timeout=1.0: the second is over, the event loop runs _release_waiter
\* from wait_for's timer.  The task that wraps tasks.get() was made ready
\* when the timer was set, so its first step has run by then
TimerFires(w) ==
    /\ w \in DOMAIN workers
    /\ workers[w].pc = "waiting"
    /\ workers[w].fut # "new"
    /\ ~InReady(ready, "step", w)
    /\ ready' = CallSoon(ready, "step", w)
    /\ UNCHANGED <<tasks, getters, results, _running, _worker_task, workers,
                   stopWait, reply, started, calls>>
    /\ UNCHANGED <<atStop, queueFrame>>

\* the worker resumes in wait_for and the inner get is done: wait_for hands
\* the task to the worker, also when stop_worker has cancelled the worker in
\* the meantime
WorkerResume(w, o) ==
    /\ ready # <<>>
    /\ Head(ready) = Handle("step", w)
    /\ workers[w].pc = "waiting"
    /\ workers[w].fut = "done"
    /\ IF workers[w].must_cancel /\ WaitForCancelled(TRUE) = "raise"
       THEN /\ Finish(w, Drop(Tail(ready), "cb", w))
            /\ UNCHANGED <<results, atStop, started, calls>>
       ELSE Dispatch(w, workers[w].task, o, Drop(Tail(ready), "cb", w))
    /\ UNCHANGED <<tasks, getters, _running, _worker_task, stopWait, reply>>
    /\ UNCHANGED queueFrame

\* the worker resumes in wait_for and the inner get is not done: the timer
\* has fired, or stop_worker has cancelled the worker.  wait_for cancels the
\* inner get and waits for it to end (_cancel_and_wait)
WorkerCancelAndWait(w) ==
    /\ ready # <<>>
    /\ Head(ready) = Handle("step", w)
    /\ workers[w].pc = "waiting"
    /\ workers[w].fut # "done"
    /\ workers' = [workers EXCEPT
                     ![w].pc = IF workers[w].must_cancel THEN "cancelled"
                               ELSE "timed_out",
                     ![w].must_cancel = FALSE,
                     ![w].fut_must_cancel = TRUE]
    /\ IF workers[w].fut = "blocked"
       THEN /\ getters' = SelectSeq(getters, LAMBDA g : g # w)
            /\ ready' = CallSoon(Tail(ready), "get", w)
       ELSE /\ ready' = Tail(ready)
            /\ UNCHANGED getters
    /\ UNCHANGED <<tasks, results, _running, _worker_task, stopWait, reply,
                   started, calls>>
    /\ UNCHANGED <<atStop, queueFrame>>

\* the cancelled inner get has ended after a timeout: wait_for raises
\* asyncio.TimeoutError, `continue`; or stop_worker has cancelled the worker
\* while it waited for that: CancelledError, `break`
WorkerTimeout(w) ==
    /\ ready # <<>>
    /\ Head(ready) = Handle("step", w)
    /\ workers[w].pc = "timed_out"
    /\ IF workers[w].must_cancel
       THEN Finish(w, Drop(Tail(ready), "cb", w))
       ELSE Loop(w, Tail(ready))
    /\ UNCHANGED <<tasks, getters, results, _running, _worker_task, stopWait,
                   reply, started, calls>>
    /\ UNCHANGED <<atStop, queueFrame>>

\* the cancelled inner get has ended after stop_worker's cancellation:
\* wait_for re-raises CancelledError, `except asyncio.CancelledError: break`
WorkerCancelledInWait(w) ==
    /\ ready # <<>>
    /\ Head(ready) = Handle("step", w)
    /\ workers[w].pc = "cancelled"
    /\ WaitForCancelled(FALSE) = "raise"
    /\ Finish(w, Tail(ready))
    /\ UNCHANGED <<tasks, getters, results, _running, _worker_task, stopWait,
                   reply, started, calls>>
    /\ UNCHANGED <<atStop, queueFrame>>

\* what the handler awaits is done: the worker is ready to go on in it
HandlerWake(w) ==
    /\ w \in DOMAIN workers
    /\ workers[w].pc = "handling"
    /\ ~InReady(ready, "step", w)
    /\ ready' = CallSoon(ready, "step", w)
    /\ UNCHANGED <<tasks, getters, results, _running, _worker_task, workers,
                   stopWait, reply, started, calls>>
    /\ UNCHANGED <<atStop, queueFrame>>

\* process_func(task) goes on to its next await: nothing limits a handler to
\* one.  When stop_worker has cancelled the worker, the step throws
\* CancelledError into the handler, which catches it and awaits again; the
\* cancellation is spent, and stop_worker stays suspended on the worker task
HandlerAwait(w) ==
    /\ ready # <<>>
    /\ Head(ready) = Handle("step", w)
    /\ workers[w].pc = "handling"
    /\ workers' = [workers EXCEPT ![w].must_cancel = FALSE]
    /\ ready' = Tail(ready)
    /\ UNCHANGED <<tasks, getters, results, _running, _worker_task, stopWait,
                   reply, started, calls>>
    /\ UNCHANGED <<atStop, queueFrame>>

\* process_func(task) returns result; when stop_worker has cancelled the
\* worker, after catching the CancelledError thrown into it
HandlerReturn(w, result) ==
    /\ ready # <<>>
    /\ Head(ready) = Handle("step", w)
    /\ workers[w].pc = "handling"
    /\ Ends(w, workers[w].task.id, [kind |-> "return", value |-> result],
            workers[w].must_cancel, results, calls, Tail(ready))
    /\ UNCHANGED <<tasks, getters, _running, _worker_task, stopWait, reply,
                   started>>
    /\ UNCHANGED <<atStop, queueFrame>>

\* process_func(task) raises an Exception e with str(e) = error_msg
HandlerRaise(w, error_msg) ==
    /\ ready # <<>>
    /\ Head(ready) = Handle("step", w)
    /\ workers[w].pc = "handling"
    /\ Ends(w, workers[w].task.id, [kind |-> "raise", value |-> error_msg],
            workers[w].must_cancel, results, calls, Tail(ready))
    /\ UNCHANGED <<tasks, getters, _running, _worker_task, stopWait, reply,
                   started>>
    /\ UNCHANGED <<atStop, queueFrame>>

\* asyncio.CancelledError comes out of the handler call: thrown into it by
\* stop_worker's cancel(), or raised by the handler itself.  It is not an
\* Exception: only `finally` and `except asyncio.CancelledError: break` run
HandlerCancelled(w) ==
    /\ ready # <<>>
    /\ Head(ready) = Handle("step", w)
    /\ workers[w].pc = "handling"
    /\ Ends(w, workers[w].task.id, [kind |-> "cancelled", value |-> None],
            workers[w].must_cancel, results, calls, Tail(ready))
    /\ UNCHANGED <<tasks, getters, _running, _worker_task, stopWait, reply,
                   started>>
    /\ UNCHANGED <<atStop, queueFrame>>

Next ==
    \/ \E t \in TaskTypes, i \in uuid4 : Enqueue(t, i)
    \/ \E i \in PollIds : GetTaskResult(i)
    \/ \E h \in Handlers : StartWorker(h)
    \/ StopWorker
    \/ \E w \in WorkerIds : StopReturn(w)
    \/ \E w \in WorkerIds : WorkerBegin(w)
    \/ \E w \in WorkerIds : GetStep(w)
    \/ \E w \in WorkerIds : ReleaseWaiter(w)
    \/ \E w \in WorkerIds : TimerFires(w)
    \/ \E w \in WorkerIds, o \in Outcomes : WorkerResume(w, o)
    \/ \E w \in WorkerIds : WorkerCancelAndWait(w)
    \/ \E w \in WorkerIds : WorkerTimeout(w)
    \/ \E w \in WorkerIds : WorkerCancelledInWait(w)
    \/ \E w \in WorkerIds : HandlerWake(w)
    \/ \E w \in WorkerIds : HandlerAwait(w)
    \/ \E w \in WorkerIds, r \in Returns : HandlerReturn(w, r)
    \/ \E w \in WorkerIds, m \in ErrorMsgs : HandlerRaise(w, m)
    \/ \E w \in WorkerIds : HandlerCancelled(w)

Spec == Init /\ [][Next]_vars

\* the callback at the head of the ready queue runs
RunOnce ==
    \E w \in WorkerIds :
        \/ StopReturn(w)
        \/ WorkerBegin(w)
        \/ GetStep(w)
        \/ ReleaseWaiter(w)
        \/ \E o \in Outcomes : WorkerResume(w, o)
        \/ WorkerCancelAndWait(w)
        \/ WorkerTimeout(w)
        \/ WorkerCancelledInWait(w)
        \/ HandlerAwait(w)
        \/ \E r \in Returns : HandlerReturn(w, r)
        \/ \E m \in ErrorMsgs : HandlerRaise(w, m)
        \/ HandlerCancelled(w)

\* the event loop runs what is ready, the second of each wait_for passes,
\* and what a handler call awaits gets done
FairSpec ==
    /\ Spec
    /\ WF_vars(RunOnce)
    /\ \A w \in WorkerIds : WF_vars(TimerFires(w)) /\ WF_vars(HandlerWake(w))


\* ------------------------------------------------- file store operations
\* save_file and get_file give up control at each await (aiofiles.open,
\* file.read, out_file.write, leaving the `async with` block), so each is
\* a sequence of steps that the steps of other calls may come between;
\* delete_file and clean_temp_files await nothing and are one step each.
\* HTTPException(status_code=500, ...)
HTTP_500_INTERNAL_SERVER_ERROR == 500

\* uuid.uuid4().hex: the name save_file makes up when it is given none
uuid4hex == <<"e", "0">>

\* mimetypes.types_map once mimetypes.init() has read the mime.types files
\* of the system: the extensions made of the characters file names are made
\* of here.  None of them is in suffix_map or encodings_map.
types_map ==
       (".a" :> "text/vnd.a")
    @@ (".asn" :> "chemical/x-ncbi-asn1-spec")
    @@ (".aso" :> "chemical/x-ncbi-asn1-binary")
    @@ (".ass" :> "audio/aac")
    @@ (".atom" :> "application/atom+xml")
    @@ (".emm" :> "application/vnd.ibm.electronic-media")
    @@ (".emma" :> "application/emma+xml")
    @@ (".ent" :> "application/xml-external-parsed-entity")
    @@ (".eot" :> "application/vnd.ms-fontobject")
    @@ (".es" :> "text/javascript")
    @@ (".esa" :> "application/vnd.osgi.subsystem")
    @@ (".jam" :> "application/vnd.jam")
    @@ (".js" :> "text/javascript")
    @@ (".json" :> "application/json")
    @@ (".jsontm" :> "application/tm+json")
    @@ (".jt" :> "model/JT")
    @@ (".m" :> "application/vnd.wolfram.mathematica.package")
    @@ (".ma" :> "application/mathematica")
    @@ (".man" :> "application/x-troff-man")
    @@ (".me" :> "application/x-troff-me")
    @@ (".mets" :> "application/mets+xml")
    @@ (".mjs" :> "text/javascript")
    @@ (".mm" :> "application/x-freemind")
    @@ (".moo" :> "chemical/x-mopac-out")
    @@ (".ms" :> "application/x-troff-ms")
    @@ (".msa" :> "application/vnd.msa-disk-image")
    @@ (".msm" :> "model/vnd.gdl")
    @@ (".mts" :> "model/vnd.mts")
    @@ (".nns" :> "application/vnd.noblenet-sealer")
    @@ (".nt" :> "application/n-triples")
    @@ (".o" :> "application/x-object")
    @@ (".oas" :> "application/vnd.fujitsu.oasys")
    @@ (".one" :> "application/onenote")
    @@ (".osm" :> "application/vnd.openstreetmap.data+xml")
    @@ (".ota" :> "application/vnd.android.ota")
    @@ (".ots" :> "application/vnd.oasis.opendocument.spreadsheet-template")
    @@ (".ott" :> "application/vnd.oasis.opendocument.text-template")
    @@ (".s11" :> "video/vnd.sealed.mpeg1")
    @@ (".s1a" :> "application/vnd.sealedmedia.softseal.pdf")
    @@ (".s1e" :> "application/vnd.sealed.xls")
    @@ (".s1j" :> "image/vnd.sealedmedia.softseal.jpg")
    @@ (".s1m" :> "audio/vnd.sealedmedia.softseal.mpeg")
    @@ (".s1n" :> "image/vnd.sealed.png")
    @@ (".sam" :> "application/vnd.lotus-wordpro")
    @@ (".see" :> "application/vnd.seemail")
    @@ (".sem" :> "application/vnd.sealed.eml")
    @@ (".sema" :> "application/vnd.sema")
    @@ (".sm" :> "application/vnd.stepmania.stepchart")
    @@ (".smo" :> "video/vnd.sealedmedia.softseal.mov")
    @@ (".sms" :> "application/vnd.3gpp2.sms")
    @@ (".so" :> "application/octet-stream")
    @@ (".soa" :> "text/dns")
    @@ (".sos" :> "text/vnd.sosi")
    @@ (".sse" :> "application/vnd.kodak-descriptor")
    @@ (".st" :> "application/vnd.sailingtracker.track")
    @@ (".t" :> "text/troff")
    @@ (".tam" :> "application/vnd.onepager")
    @@ (".tao" :> "application/vnd.tao.intent-module-archive")
    @@ (".tat" :> "application/vnd.onepagertat")
    @@ (".tm" :> "text/texmacs")
    @@ (".tm.json" :> "application/tm+json")
    @@ (".tmo" :> "application/vnd.tmobile-livetv")
    @@ (".ts" :> "text/vnd.trolltech.linguist")
    @@ (".tsa" :> "application/tamp-sequence-adjust")
    @@ (".tst" :> "application/vnd.etsi.timestamp-token")

\* mimetypes.guess_type(file_path) looks up the extension splitext finds in
\* the path, which is that of the last component and is in lower case here;
\* 'application/octet-stream' when it is not in the table
get_content_type(file_path) ==
    LET RECURSIVE join(_)
        join(chars) == IF chars = <<>> THEN ""
                       ELSE Head(chars) \o join(Tail(chars))
        ext == join(splitext(file_path[Len(file_path)]))
    IN IF ext \in DOMAIN types_map THEN types_map[ext]
       ELSE "application/octet-stream"

\* the path of the file the save_file call in flight has open, if any
SaveHandle ==
    IF saving.pc \in {"write", "close"} THEN {saving.file_path}
    ELSE IF saving.pc \in {"meta_write", "meta_close"}
    THEN {MetaPath(saving.file_path)}
    ELSE {}

\* the save_file call in flight after the regular files at paths have
\* been removed: a file it has open lives on without a name
SavingAfterRemove(paths) ==
    IF saving.linked /\ SaveHandle \cap paths # {}
    THEN [saving EXCEPT !.linked = FALSE,
                        !.data = disk[CHOOSE p \in SaveHandle : TRUE].data]
    ELSE saving

\* the get_file call in flight after the regular files at paths have been
\* removed; shared: the file it has open is the one save_file has open
GettingAfterRemove(paths) ==
    IF getting.pc = "read" /\ getting.linked /\ getting.file_path \in paths
    THEN [getting EXCEPT !.linked = FALSE,
                         !.shared = saving.linked
                                    /\ getting.file_path \in SaveHandle,
                         !.data = disk[getting.file_path].data]
    ELSE getting

\* the get_file call in flight after save_file has put data into the file
\* it has open, and closed it or not: once closed, save_file has no file
\* open
GettingAfterWrite(data, closed) ==
    IF getting.pc = "read" /\ ~getting.linked /\ getting.shared
    THEN [getting EXCEPT !.data = data, !.shared = ~closed]
    ELSE getting

\* save_file up to the await of aiofiles.open(file_path, 'wb'): the
\* directories are made, the name and the path worked out.  Given no name
\* (None or ''), it makes one up of uuid4().hex, which no file has yet, and
\* the extension of the name of the upload, if that has a name.  os.makedirs
\* raises when the user's directory is a regular file.
SaveCall(file, folder, filename, user_id, metadata) ==
    LET storage_path == StoragePath(folder, user_id)
        ext == IF file.filename # <<>> THEN splitext(file.filename) ELSE <<>>
        name == secure_filename(IF filename = <<>> THEN uuid4hex \o ext
                                ELSE filename)
        file_path == Join(storage_path, name)
        entries == DOMAIN disk \cup {storage_path}
                    \cup (IF name # <<>> THEN {file_path} ELSE {})
                    \cup (IF name # <<>> /\ metadata # None
                          THEN {MetaPath(file_path)} ELSE {})
    IN /\ saving.pc = "idle"
       /\ filename = <<>> => ~exists(disk, file_path)
       /\ Cardinality(entries) <= Cardinality(DOMAIN InitialDisk) + MaxFiles
       /\ IF exists(disk, storage_path) /\ ~isdir(disk, storage_path)
          THEN /\ out' = Raised("FileExistsError")
               /\ UNCHANGED <<disk, saving>>
          ELSE /\ disk' = SetItem(disk, storage_path, Dir)
               /\ saving' = [NoSave EXCEPT !.pc = "open",
                                           !.content = file.content,
                                           !.filename = name,
                                           !.file_path = file_path,
                                           !.metadata = metadata]
               /\ out' = out
       /\ UNCHANGED <<stored, getting>>
       /\ UNCHANGED storeFrame

\* the `except Exception` block of save_file: the partial file is removed
\* and HTTPException 500 raised; os.remove raises instead when file_path is
\* a directory
SaveExcept ==
    /\ saving' = NoSave
    /\ IF isdir(disk, saving.file_path)
       THEN /\ out' = Raised("IsADirectoryError")
            /\ UNCHANGED <<disk, getting>>
       ELSE /\ out' = Raised(HTTPException(HTTP_500_INTERNAL_SERVER_ERROR,
                                           "Error al guardar archivo"))
            /\ disk' = IF exists(disk, saving.file_path)
                       THEN remove(disk, saving.file_path) ELSE disk
            /\ getting' = GettingAfterRemove({saving.file_path})
    /\ UNCHANGED stored

\* aiofiles.open(file_path, 'wb'): the file is there and empty, or the
\* open raises
SaveOpen ==
    /\ saving.pc = "open"
    /\ IF CanOpenW(disk, saving.file_path)
       THEN /\ disk' = SetItem(disk, saving.file_path, File(""))
            /\ saving' = [saving EXCEPT !.pc = "write", !.linked = TRUE]
            /\ UNCHANGED <<stored, out, getting>>
       ELSE SaveExcept
    /\ UNCHANGED storeFrame

\* the file that save_file has open holds data, and is closed or not
SaveWritten(data, closed) ==
    /\ disk' = IF saving.linked
               THEN SetItem(disk, CHOOSE p \in SaveHandle : TRUE, File(data))
               ELSE disk
    /\ getting' = GettingAfterWrite(data, closed)

\* `while content := await file.read(...): await out_file.write(content)`:
\* the bytes are in the file already (flushed), or still in the buffer of
\* out_file; nothing is written for an empty upload
SaveWrite(flushed) ==
    /\ saving.pc = "write"
    /\ IF flushed /\ saving.content # ""
       THEN /\ SaveWritten(saving.content, FALSE)
            /\ saving' = [saving EXCEPT !.pc = "close",
                                        !.data = saving.content]
       ELSE /\ saving' = [saving EXCEPT !.pc = "close"]
            /\ UNCHANGED <<disk, getting>>
    /\ UNCHANGED <<stored, out>>
    /\ UNCHANGED storeFrame

\* what save_file returns
SaveReturns ==
    /\ out' = [filename |-> saving.filename, path |-> saving.file_path]
    /\ stored' = SetItem(stored, saving.file_path, saving.content)
    /\ saving' = NoSave

\* leaving `async with ... as out_file`: the file is closed and holds the
\* bytes.  Then os.path.getsize(file_path), which raises when the file is
\* gone; with no metadata save_file returns, else it goes on to
\* aiofiles.open(metadata_path, 'w')
SaveClose ==
    /\ saving.pc = "close"
    /\ IF ~exists(disk, saving.file_path)
       THEN /\ saving' = NoSave
            /\ out' = Raised(HTTPException(HTTP_500_INTERNAL_SERVER_ERROR,
                                           "Error al guardar archivo"))
            /\ getting' = GettingAfterWrite(saving.content, TRUE)
            /\ UNCHANGED <<disk, stored>>
       ELSE /\ SaveWritten(saving.content, TRUE)
            /\ IF saving.metadata # None
               THEN /\ saving' = [saving EXCEPT !.pc = "meta_open",
                                                !.linked = FALSE,
                                                !.data = ""]
                    /\ UNCHANGED <<stored, out>>
               ELSE SaveReturns
    /\ UNCHANGED storeFrame

\* aiofiles.open(metadata_path, 'w'): the metadata file is there and empty,
\* or the open raises
SaveMetaOpen ==
    /\ saving.pc = "meta_open"
    /\ IF CanOpenW(disk, MetaPath(saving.file_path))
       THEN /\ disk' = SetItem(disk, MetaPath(saving.file_path), File(""))
            /\ saving' = [saving EXCEPT !.pc = "meta_write", !.linked = TRUE]
            /\ UNCHANGED <<stored, out, getting>>
       ELSE SaveExcept
    /\ UNCHANGED storeFrame

\* `await meta_file.write(json.dumps(meta_data))`: in the file already, or
\* still in the buffer of meta_file
SaveMetaWrite(flushed) ==
    /\ saving.pc = "meta_write"
    /\ IF flushed
       THEN /\ SaveWritten(MetaJson, FALSE)
            /\ saving' = [saving EXCEPT !.pc = "meta_close",
                                        !.data = MetaJson]
       ELSE /\ saving' = [saving EXCEPT !.pc = "meta_close"]
            /\ UNCHANGED <<disk, getting>>
    /\ UNCHANGED <<stored, out>>
    /\ UNCHANGED storeFrame

\* leaving `async with ... as meta_file`: the metadata file is closed and
\* holds the JSON text; save_file returns
SaveMetaClose ==
    /\ saving.pc = "meta_close"
    /\ SaveWritten(MetaJson, TRUE)
    /\ SaveReturns
    /\ UNCHANGED storeFrame

\* get_file when no step of another call comes between its steps: what it
\* returns or raises on disk d
get_file(d, filename, folder, user_id) ==
    LET file_path == FilePath(filename, folder, user_id)
    IN IF ~exists(d, file_path)
       THEN Raised(HTTPException(HTTP_404_NOT_FOUND, "Archivo no encontrado"))
       ELSE IF ~isfile(d, file_path)
       THEN Raised(HTTPException(HTTP_500_INTERNAL_SERVER_ERROR,
                                 "Error al leer archivo"))
       ELSE [content_type |-> get_content_type(file_path),
             content |-> d[file_path].data]

\* get_file up to the await of aiofiles.open(file_path, 'rb'): 404 when
\* os.path.exists says the path is not there
GetCall(filename, folder, user_id) ==
    LET file_path == FilePath(filename, folder, user_id)
    IN /\ getting.pc = "idle"
       /\ IF ~exists(disk, file_path)
          THEN /\ out' = get_file(disk, filename, folder, user_id)
               /\ UNCHANGED getting
          ELSE /\ getting' = [NoGet EXCEPT
                                !.pc = "open",
                                !.file_path = file_path,
                                !.content_type = get_content_type(file_path)]
               /\ out' = out
       /\ UNCHANGED <<disk, stored, saving>>
       /\ UNCHANGED storeFrame

\* aiofiles.open(file_path, 'rb'): what it raises, for a directory or a
\* file that is gone by now, comes out as HTTPException 500
GetOpen ==
    /\ getting.pc = "open"
    /\ IF isfile(disk, getting.file_path)
       THEN /\ getting' = [getting EXCEPT !.pc = "read", !.linked = TRUE]
            /\ out' = out
       ELSE /\ getting' = NoGet
            /\ out' = Raised(HTTPException(HTTP_500_INTERNAL_SERVER_ERROR,
                                           "Error al leer archivo"))
    /\ UNCHANGED <<disk, stored, saving>>
    /\ UNCHANGED storeFrame

\* `content = await file.read()`: the bytes the open file holds now
GetRead ==
    /\ getting.pc = "read"
    /\ getting' = [getting EXCEPT
                    !.pc = "close",
                    !.linked = FALSE,
                    !.shared = FALSE,
                    !.data = IF getting.linked
                             THEN disk[getting.file_path].data
                             ELSE getting.data]
    /\ UNCHANGED <<disk, stored, out, saving>>
    /\ UNCHANGED storeFrame

\* leaving `async with ... as file`; get_file returns
GetClose ==
    /\ getting.pc = "close"
    /\ out' = [content_type |-> getting.content_type,
               content |-> getting.data]
    /\ getting' = NoGet
    /\ UNCHANGED <<disk, stored, saving>>
    /\ UNCHANGED storeFrame

\* delete_file on disk d: what it returns, and the disk it leaves
delete_file(d, filename, folder, user_id) ==
    LET file_path == FilePath(filename, folder, user_id)
        d1 == remove(d, file_path)
        meta_path == MetaPath(file_path)
    IN IF ~exists(d, file_path)
       THEN [ret |-> FALSE, disk |-> d]
       ELSE IF isdir(d, file_path)
       THEN \* os.remove on a directory raises: `except Exception: return False`
            [ret |-> FALSE, disk |-> d]
       ELSE IF ~exists(d1, meta_path)
       THEN [ret |-> TRUE, disk |-> d1]
       ELSE IF isdir(d1, meta_path)
       THEN [ret |-> FALSE, disk |-> d1]
       ELSE [ret |-> TRUE, disk |-> remove(d1, meta_path)]

DeleteFile(filename, folder, user_id) ==
    LET r == delete_file(disk, filename, folder, user_id)
        removed == DOMAIN disk \ DOMAIN r.disk
    IN /\ disk' = r.disk
       /\ out' = [deleted |-> r.ret]
       /\ stored' = IF r.ret
                    THEN remove(stored, FilePath(filename, folder, user_id))
                    ELSE stored
       /\ saving' = SavingAfterRemove(removed)
       /\ getting' = GettingAfterRemove(removed)
       /\ UNCHANGED storeFrame

\* clean_temp_files(max_age_hours): old holds the regular files directly
\* in temp, those os.scandir(temp_dir) yields, whose mtime is more than
\* max_age_hours back, which is for the clock and the file system to say;
\* they are removed and counted
CleanTempFiles(old) ==
    /\ \A path \in old :
            Len(path) = 2 /\ path[1] = <<"temp">> /\ disk[path].kind = "file"
    /\ disk' = [q \in DOMAIN disk \ old |-> disk[q]]
    /\ out' = [deleted_count |-> Cardinality(old)]
    /\ stored' = [q \in DOMAIN stored \ old |-> stored[q]]
    /\ saving' = SavingAfterRemove(old)
    /\ getting' = GettingAfterRemove(old)
    /\ UNCHANGED storeFrame

StorageNext ==
    \/ \E file \in Files, f \in Folders, n \in Names \cup {<<>>},
          u \in UserIds, m \in Metadatas : SaveCall(file, f, n, u, m)
    \/ SaveOpen
    \/ \E flushed \in BOOLEAN : SaveWrite(flushed)
    \/ SaveClose
    \/ SaveMetaOpen
    \/ \E flushed \in BOOLEAN : SaveMetaWrite(flushed)
    \/ SaveMetaClose
    \/ \E n \in Names, f \in Folders, u \in UserIds : GetCall(n, f, u)
    \/ GetOpen
    \/ GetRead
    \/ GetClose
    \/ \E n \in Names, f \in Folders, u \in UserIds : DeleteFile(n, f, u)
    \/ \E old \in SUBSET DOMAIN disk : CleanTempFiles(old)

StorageSpec == Init /\ [][StorageNext]_vars

\* ------------------------------------------ password generator operations
\* range(length - 4): how many characters the loop appends
FillCount(length) == IF length > RequiredKinds THEN length - RequiredKinds ELSE 0

\* the loop of random.shuffle starts at the last index, or has nothing to do
AfterFill(g) ==
    IF Len(g.password) < RequiredKinds + FillCount(g.length) THEN g
    ELSE [g EXCEPT !.pc = "shuffle", !.i = Len(g.password)]

\* generate_strong_password(length) up to the loop: one character of each kind
GenerateStart(length, l, u, d, s) ==
    /\ gen.pc = "idle"
    /\ gen' = AfterFill([pc |-> "fill", length |-> length,
                         password |-> <<l, u, d, s>>, i |-> 0])
    /\ UNCHANGED genFrame

\* password.append(secrets.choice(lowercase + uppercase + numbers + symbols))
GenerateFill(c) ==
    /\ gen.pc = "fill"
    /\ gen' = AfterFill([gen EXCEPT !.password = Append(@, c)])
    /\ UNCHANGED genFrame

\* one round of random.shuffle: j = randbelow(i + 1), swap, i goes down
ShuffleStep(j) ==
    /\ gen.pc = "shuffle"
    /\ gen.i >= 2
    /\ j <= gen.i
    /\ gen' = [gen EXCEPT !.password = Swap(@, gen.i, j), !.i = @ - 1]
    /\ UNCHANGED genFrame

\* return ''.join(password)
GenerateReturn ==
    /\ gen.pc = "shuffle"
    /\ gen.i < 2
    /\ gen' = [gen EXCEPT !.pc = "returned"]
    /\ UNCHANGED genFrame

PasswordNext ==
    \/ \E n \in MinPasswordLength..MaxPasswordLength,
          l \in {c \in ascii_lowercase : c = "a"},
          u \in {c \in ascii_uppercase : c = "A"},
          d \in {c \in digits : c = "1"},
          s \in {c \in punctuation : c \in {"!", "_"}} :
            GenerateStart(n, l, u, d, s)
    \/ \E c \in FillDraws : GenerateFill(c)
    \/ \E j \in 1..MaxPasswordLength : ShuffleStep(j)
    \/ GenerateReturn

PasswordSpec == Init /\ [][PasswordNext]_vars

\* ------------------------------------------------ progress table operations
\* a call that has run its first statement and has not ended
InFlight(c) == upsert[c].pc \notin {"idle", "returned", "raised"}

\* another connection holds the write lock: it has run its INSERT or UPDATE
\* and not committed yet
Held(c) == \E o \in Callers \ {c} : upsert[o].pc = "written"

\* an exception leaves the call; `async with db` closes the connection, and
\* what it has not committed is rolled back
Raise(c, error) ==
    [NoUpsert EXCEPT !.pc = "raised", !.route = upsert[c].route,
                     !.data = upsert[c].data, !.error = <<error>>]

\* the route: cursor = await db.execute("SELECT * FROM materias WHERE id = ?").
\* The route runs the statements of crud.update_progress itself, with
\* current_user["id"] for usuario_id
RouteSelectMateria(c, d) ==
    /\ ~InFlight(c)
    /\ upsert' = [upsert EXCEPT ![c] =
            [NoUpsert EXCEPT !.pc = "materia_selected", !.route = TRUE,
                             !.data = d,
                             !.rows = SelectMateria(d.materia_id)]]
    /\ overlapped' = (overlapped \/ \E o \in Callers \ {c} : InFlight(o))
    /\ UNCHANGED progreso
    /\ UNCHANGED dbFrame

\* the route: materia = await cursor.fetchone(); if not materia: raise
\* HTTPException(404, "Materia no encontrada")
RouteFetchMateria(c) ==
    /\ upsert[c].pc = "materia_selected"
    /\ upsert' = [upsert EXCEPT ![c] =
            IF fetchone(upsert[c].rows) = <<>>
            THEN Raise(c, HTTPException(HTTP_404_NOT_FOUND,
                                        "Materia no encontrada"))
            ELSE [upsert[c] EXCEPT !.pc = "materia_fetched", !.rows = <<>>]]
    /\ UNCHANGED <<progreso, overlapped>>
    /\ UNCHANGED dbFrame

\* cursor = await db.execute("SELECT * FROM progreso WHERE ..."): the first
\* statement of crud.update_progress, the one after the materia check in the
\* route.  The statement is run up to its first row: when it has one, the
\* connection reads the database as it is now until the statement is done
UpsertSelect(c, d) ==
    /\ IF upsert[c].pc = "materia_fetched"
       THEN d = upsert[c].data
       ELSE ~InFlight(c)
    /\ upsert' = [upsert EXCEPT ![c] =
            [NoUpsert EXCEPT
                !.pc = "selected", !.route = upsert[c].pc = "materia_fetched",
                !.data = d, !.rows = Select(progreso, d),
                !.snapshot = IF Select(progreso, d) = <<>> THEN <<>>
                             ELSE progreso]]
    /\ overlapped' = (overlapped \/ \E o \in Callers \ {c} : InFlight(o))
    /\ UNCHANGED progreso
    /\ UNCHANGED dbFrame

\* existing_progress = await cursor.fetchone().  The statement is done when
\* it has no row after the one fetched; else the cursor stays open, and the
\* connection goes on reading the database as it was
UpsertFetch(c) ==
    /\ upsert[c].pc = "selected"
    /\ upsert' = [upsert EXCEPT ![c] =
            [upsert[c] EXCEPT
                !.pc = "fetched",
                !.existing_progress = fetchone(upsert[c].rows),
                !.snapshot = IF Len(upsert[c].rows) > 1 THEN @ ELSE <<>>,
                !.stale = IF Len(upsert[c].rows) > 1 THEN @ ELSE FALSE]]
    /\ UNCHANGED <<progreso, overlapped>>
    /\ UNCHANGED dbFrame

\* await db.execute("UPDATE ..." or "INSERT ...").  The statement takes the
\* write lock of the database and holds it until the commit.  A connection
\* that still reads the database cannot wait for the lock, and cannot write
\* when what it reads is out of date: OperationalError 'database is locked'
\* at once.  Another connection waits for the lock (UpsertBusy).  The
\* UPDATE also sets ultima_actividad = CURRENT_TIMESTAMP; tick: that is not
\* the second the row holds already.  An UPDATE that leaves the row as it
\* is changes nothing in the database
UpsertWrite(c, tick) ==
    LET d == upsert[c].data
        id == IF upsert[c].existing_progress # <<>>
              THEN Head(upsert[c].existing_progress).id
              ELSE lastrowid(progreso)
        after == IF upsert[c].existing_progress # <<>>
                 THEN Update(progreso, d, id)
                 ELSE Insert(progreso, d)
    IN /\ upsert[c].pc = "fetched"
       /\ IF upsert[c].snapshot # <<>> /\ (upsert[c].stale \/ Held(c))
          THEN upsert' = [upsert EXCEPT ![c] = Raise(c, Locked)]
          ELSE /\ ~Held(c)
               /\ Len(after) <= MaxRows
               /\ upsert' = [upsert EXCEPT ![c] =
                    [upsert[c] EXCEPT
                        !.pc = "written", !.pending = after, !.id = id,
                        !.written = IF upsert[c].existing_progress # <<>>
                                    THEN tick \/ after # progreso
                                    ELSE TRUE]]
       /\ UNCHANGED <<progreso, overlapped>>
       /\ UNCHANGED dbFrame

\* the INSERT or UPDATE of a connection that reads nothing has waited for
\* the write lock for the 5 seconds of sqlite3.connect's default timeout:
\* OperationalError 'database is locked'
UpsertBusy(c) ==
    /\ upsert[c].pc = "fetched"
    /\ upsert[c].snapshot = <<>>
    /\ Held(c)
    /\ upsert' = [upsert EXCEPT ![c] = Raise(c, Locked)]
    /\ UNCHANGED <<progreso, overlapped>>
    /\ UNCHANGED dbFrame

\* await db.commit().  The connections that read the database as it was
\* before a commit that changes it are behind from now on; a connection
\* with unread rows of its own goes on reading the database as its commit
\* leaves it
UpsertCommit(c) ==
    /\ upsert[c].pc = "written"
    /\ progreso' = upsert[c].pending
    /\ upsert' =
        [o \in Callers |->
            IF o = c
            THEN [upsert[c] EXCEPT
                    !.pc = "committed",
                    !.snapshot = IF @ # <<>> THEN upsert[c].pending ELSE <<>>,
                    !.stale = FALSE, !.pending = <<>>, !.written = FALSE]
            ELSE IF upsert[c].written /\ upsert[o].snapshot # <<>>
            THEN [upsert[o] EXCEPT !.stale = TRUE]
            ELSE upsert[o]]
    /\ UNCHANGED overlapped
    /\ UNCHANGED dbFrame

\* cursor = await db.execute("SELECT * FROM progreso WHERE id = ?"), with
\* the id of existing_progress or cursor.lastrowid
UpsertReselect(c) ==
    /\ upsert[c].pc = "committed"
    /\ upsert' = [upsert EXCEPT ![c] =
            [upsert[c] EXCEPT
                !.pc = "reselected",
                !.rows = SelectById(IF upsert[c].snapshot # <<>>
                                    THEN upsert[c].snapshot
                                    ELSE progreso, upsert[c].id)]]
    /\ UNCHANGED <<progreso, overlapped>>
    /\ UNCHANGED dbFrame

\* updated_progress = await cursor.fetchone(); return dict(updated_progress):
\* the row as the SELECT found it (the route: ProgressResponse of that dict)
UpsertReturn(c) ==
    /\ upsert[c].pc = "reselected"
    /\ upsert' = [upsert EXCEPT ![c] =
            [NoUpsert EXCEPT !.pc = "returned", !.route = upsert[c].route,
                             !.data = upsert[c].data, !.id = upsert[c].id,
                             !.ret = fetchone(upsert[c].rows)]]
    /\ UNCHANGED <<progreso, overlapped>>
    /\ UNCHANGED dbFrame

ProgressNext ==
    \/ \E c \in Callers, d \in ProgressData : RouteSelectMateria(c, d)
    \/ \E c \in Callers : RouteFetchMateria(c)
    \/ \E c \in Callers, d \in ProgressData : UpsertSelect(c, d)
    \/ \E c \in Callers : UpsertFetch(c)
    \/ \E c \in Callers, tick \in BOOLEAN : UpsertWrite(c, tick)
    \/ \E c \in Callers : UpsertBusy(c)
    \/ \E c \in Callers : UpsertCommit(c)
    \/ \E c \in Callers : UpsertReselect(c)
    \/ \E c \in Callers : UpsertReturn(c)

ProgressSpec == Init /\ [][ProgressNext]_vars

\* -------------------------------------------- content generation operations
\* the worker loop marks the task processing and calls process_task, which
\* runs up to the await of the LLM API call or raises before it; what it
\* raises the loop records as failed
WorkerCallsProcessTask(task_type, subject) ==
    /\ job.pc # "llm"
    /\ LET rec == MarkProcessing(PendingRecord(Stamp), Stamp)
           r == process_task(task_type, subject)
       IN job' =
            IF "raised" \in DOMAIN r
            THEN [pc |-> "done", task_type |-> task_type, subject |-> subject,
                  agent |-> None, llm |-> "none", error |-> <<>>,
                  raised |-> r.msg[1],
                  record |-> MarkFailed(rec, r.msg, Stamp)]
            ELSE [pc |-> "llm", task_type |-> task_type, subject |-> subject,
                  agent |-> r.agent, llm |-> "none", error |-> <<>>,
                  raised |-> "none", record |-> rec]
    /\ UNCHANGED jobFrame

\* the LLM API call ends; process_message returns the response to the
\* generator method, which parses it and returns its dict to process_task,
\* that to the worker loop, which records the outcome: completed with the
\* dict, or failed with what the parser raised
LLMCallEnds(outcome) ==
    /\ job.pc = "llm"
    /\ LET response == process_message(outcome).returned
           r == Generated(job.task_type, job.subject, response)
       IN job' =
            [job EXCEPT
                !.pc = "done",
                !.llm = IF outcome.ok THEN "ok" ELSE "failed",
                !.error = IF outcome.ok THEN <<>> ELSE outcome.text,
                !.raised = IF "raised" \in DOMAIN r THEN r.msg[1] ELSE "none",
                !.record = IF "raised" \in DOMAIN r
                           THEN MarkFailed(@, r.msg, Stamp)
                           ELSE MarkCompleted(@, r.returned, Stamp)]
    /\ UNCHANGED jobFrame

ContentNext ==
    \/ \E t \in GeneratorTaskTypes \cup RouteTaskTypes, s \in Subjects :
            WorkerCallsProcessTask(t, s)
    \/ \E o \in LLMOutcomes : LLMCallEnds(o)

ContentSpec == Init /\ [][ContentNext]_vars

\* ------------------------------------------------------------ application
\* the statement of startup_event's try block that raises, if any

\* startup_event: builds a queue service and a coordinator of its own and
\* logs whatever that raises; no call to start_queue_worker or to
\* queue.start_worker
startup_event(failure) ==
    /\ ~app.up
    /\ app' = [up |-> TRUE,
               queue_service |->
                    IF failure = "QueueService" THEN app.queue_service
                    ELSE "QueueService",
               agent_coordinator |->
                    IF failure \in {"QueueService", "connect", "AgentCoordinator"}
                    THEN app.agent_coordinator
                    ELSE "AgentCoordinator"]
    /\ UNCHANGED queueVars
    /\ UNCHANGED appFrame

\* shutdown_event: shuts down and stops the services startup_event built,
\* the globals keep them; no call to stop_queue_worker
shutdown_event ==
    /\ app.up
    /\ app' = [app EXCEPT !.up = FALSE]
    /\ UNCHANGED queueVars
    /\ UNCHANGED appFrame

\* generate_content, request_evaluation, analyze_progress:
\* task_id = await queue.enqueue(task_type, context)
RouteEnqueue(task_type) ==
    /\ app.up
    /\ \E task_id \in uuid4 : Enqueue(task_type, task_id)

\* get_task_status(task_id)
RouteTaskStatus(task_id) ==
    /\ app.up
    /\ GetTaskResult(task_id)

AppNext ==
    \/ \E f \in {"none", "QueueService", "connect", "AgentCoordinator",
                 "initialize"} : startup_event(f)
    \/ shutdown_event
    \/ \E t \in RouteTaskTypes : RouteEnqueue(t)
    \/ \E i \in 1..(MaxTasks + 1) : RouteTaskStatus(i)

AppSpec == Init /\ [][AppNext]_vars

\* the event loop resumes every worker coroutine that exists and what a
\* handler call awaits gets done
AppFairSpec ==
    /\ AppSpec
    /\ WF_vars(RunOnce)
    /\ \A w \in WorkerIds : WF_vars(TimerFires(w)) /\ WF_vars(HandlerWake(w))

\* ------------------------------------------------------------ vocabulary
Issued == DOMAIN results
Terminal(i) == results[i].status \in {"completed", "failed"}
\* the worker w holds task i: its tasks.get() has taken the task from the
\* FIFO and the worker has not yet called the handler for it
Holds(w, i) == workers[w].fut = "done" /\ workers[w].task.id = i
\* how many times task id i is on the FIFO or held by a worker
Queued(i) ==
    Cardinality({k \in DOMAIN tasks : tasks[k].id = i})
    + Cardinality({w \in DOMAIN workers : Holds(w, i)})
\* a worker coroutine that has not ended and that no stop_worker call is
\* ending
LoopAlive(w) ==
    /\ workers[w].pc \in {"created", "waiting", "timed_out", "handling"}
    /\ ~workers[w].must_cancel
\* the step is one of worker w's coroutine
StepOf(w) == ready # <<>> /\ Head(ready) = Handle("step", w)
\* the latest stop_worker call that stopped the queue returns in the step,
\* no start_worker call having been made since it was called: the call was
\* suspended on the worker task and is resumed, or it finds the worker task
\* done and does not suspend
StopReturns ==
    \/ /\ ~_running
       /\ _worker_task \in stopWait
       /\ _worker_task \notin stopWait'
    \/ _running /\ ~_running' /\ stopWait' = stopWait

\* every handler call ends: no worker stays in a handler call for ever
HandlerCallsEnd ==
    \A w \in WorkerIds :
        []<>~(w \in DOMAIN workers /\ workers[w].pc = "handling")

\* ---------------------------------------------------------------- claims

\* C1: every task accepted by enqueue eventually reaches a terminal status
\* (completed or failed) in every run in which a worker is eventually left
\* running and every handler call returns or raises.
C1_EveryTaskTerminates ==
    ((<>[](_running /\ \E w \in DOMAIN workers : LoopAlive(w)))
        /\ HandlerCallsEnd)
        => \A i \in TaskIds :
              [](i \in Issued => <>(i \in Issued /\ Terminal(i)))

\* C2: the handler is invoked at most once for each task identifier, across
\* any sequence of enqueue, start_worker and stop_worker calls.
C2_HandlerAtMostOncePerTask ==
    \A i \in TaskIds : calls[i].n <= 1

\* C2 witness: start_worker was called twice in a row and, after a
\* stop_worker that has returned, once more; every task has been handed to
\* the handler, the last one by the second worker.
C2_Witness ==
    /\ Len(workers) = 2
    /\ Len(started) = MaxTasks
    /\ \A i \in TaskIds : calls[i].n = 1
    /\ workers[1].pc = "done"
    /\ stopWait = {}
    /\ workers[2].pc = "handling"
    /\ workers[2].task.id = MaxTasks

\* C3: tasks get their processing-start stamp in the order they were
\* enqueued: the k-th stamp taken is the one of the k-th task enqueued, and a
\* task that carries the stamp is preceded only by tasks that carry it.
C3_StartsInEnqueueOrder ==
    /\ \A k \in DOMAIN started : started[k] = k
    /\ \A a, b \in Issued :
          a < b /\ results[b].processing_started # Absent
              => results[a].processing_started # Absent

\* C4: stop_worker called while the handler is executing a task does not
\* cancel that execution: when the worker loop then exits, the record of the
\* dispatched task is completed or failed.
C4_StopLetsHandlerFinish ==
    [][\A w \in DOMAIN workers :
          (workers[w].pc = "handling" /\ workers[w].must_cancel
              /\ workers'[w].pc = "done")
          => results'[workers[w].task.id].status \in {"completed", "failed"}]_vars

\* C5: after stop_worker followed by start_worker, every task that was on
\* the FIFO at the stop is processed exactly once, by the new worker.  No
\* task is lost or duplicated: a task whose record is pending is exactly once
\* on the FIFO or held by a worker, with no handler call made for it, and
\* every other task is nowhere on the FIFO and has had exactly one handler
\* call.  The handler call for a task that was on the FIFO at the stop is
\* made by the worker of a start_worker call that followed the stop.  When
\* the queue is left running and every handler call ends, that call is
\* eventually made.
C5_StopStartProcessesQueuedOnce ==
    /\ [](\A i \in Issued :
            IF results[i].status = "pending"
            THEN Queued(i) = 1 /\ calls[i].n = 0
            ELSE Queued(i) = 0 /\ calls[i].n = 1)
    /\ [][\A i \in atStop :
            calls'[i].n # calls[i].n => _running /\ StepOf(_worker_task)]_vars
    /\ ((<>[]_running) /\ HandlerCallsEnd) =>
            \A i \in TaskIds : [](i \in atStop => <>(calls[i].n = 1))

\* C6: a record's status only moves pending -> processing -> completed or
\* failed; a record in a terminal status is never changed again, so a failed
\* task is not retried under its identifier.  (A handler that ends without
\* awaiting takes its record from pending to the terminal status in the one
\* step in which the worker dispatches the task.)
C6_StatusMonotonic ==
    [][\A i \in Issued :
          \/ results'[i] = results[i]
          \/ results[i].status = "pending"
                /\ results'[i].status \in {"processing", "completed", "failed"}
                /\ results'[i].processing_started # Absent
          \/ results[i].status = "processing"
                /\ results'[i].status \in {"completed", "failed"}]_vars

\* C6 witness: one task failed, a later one completed, a third is being
\* processed.
C6_Witness ==
    /\ Len(results) = 3
    /\ results[1].status = "failed"
    /\ results[2].status = "completed"
    /\ results[3].status = "processing"

\* C7: if the handler raises for a task, the task's record ends failed with a
\* non-empty error string, and a task whose handler call returns completes.
C7_RaiseIsRecordedAsFailure ==
    \A i \in Issued :
        /\ calls[i].outcome \in {"raised", "raised_base"}
              => /\ results[i].status = "failed"
                 /\ results[i].error \notin {Absent, ""}
        /\ calls[i].outcome = "returned" => results[i].status = "completed"

\* C8: no exception ends the worker loop while the queue is running: a worker
\* that no stop_worker call has cancelled does not leave its loop in a step
\* that begins with _running set.
C8_NoExceptionEndsTheLoop ==
    [][\A w \in DOMAIN workers :
          (LoopAlive(w) /\ _running) => workers'[w].pc # "done"]_vars

\* C9: at no time are two worker loops alive on one queue, and every handler
\* call in progress is a call of the handler start_worker bound last.
C9_OneWorkerOneHandler ==
    /\ Cardinality({w \in DOMAIN workers : LoopAlive(w)}) <= 1
    /\ \A w \in DOMAIN workers :
          LoopAlive(w) /\ workers[w].pc = "handling"
              => workers[w].process_func = workers[_worker_task].process_func

\* C10: at most one handler invocation is in progress at any moment, and
\* while one is, no worker takes a task from the FIFO.
C10_OneHandlerCallAtATime ==
    /\ Cardinality({w \in DOMAIN workers : workers[w].pc = "handling"}) <= 1
    /\ (\E w \in DOMAIN workers : workers[w].pc = "handling")
          => \A w \in DOMAIN workers, i \in Issued : ~Holds(w, i)

\* C11: a stop_worker call on a queue that is not running changes nothing.
\* A stop_worker call on a running queue returns only after the worker loop
\* has exited, so that nothing is processed after it: when such a call
\* returns and no start_worker call has set the running flag again, every
\* worker coroutine has ended.
C11_StopReturnsAfterLoopExit ==
    /\ [](~_running => (ENABLED StopWorker) /\ ~ENABLED <<StopWorker>>_vars)
    /\ [][StopReturns
            => \A w \in DOMAIN workers : workers'[w].pc = "done"]_vars

\* C12: a record carries a result only if its status is completed and an
\* error only if its status is failed; no record carries both, and a pending
\* or processing record carries neither.
C12_ResultXorError ==
    \A i \in Issued :
        /\ results[i].result # None => results[i].status = "completed"
        /\ results[i].error # Absent => results[i].status = "failed"
        /\ ~(results[i].result # None /\ results[i].error # Absent)
        /\ results[i].status \in {"pending", "processing"}
              => results[i].result = None /\ results[i].error = Absent

\* C12 witness: a completed record with its result, a failed one with its
\* error, and the record of a task being processed with neither.
C12_Witness ==
    /\ Len(results) = 3
    /\ results[1].status = "completed" /\ results[1].result = "V"
    /\ results[2].status = "failed" /\ results[2].error = "boom"
    /\ results[3].status = "processing"

\* C13: every task on the FIFO or held by a worker has its result record; a
\* record is pending, with no result and no error, until a worker dispatches
\* its task, and so every record is while no worker has run.
C13_RecordExistsBeforeWorker ==
    /\ \A k \in DOMAIN tasks : tasks[k].id \in Issued
    /\ \A w \in DOMAIN workers :
          workers[w].task # NoTask => workers[w].task.id \in Issued
    /\ \A i \in Issued :
          calls[i].n = 0 => results[i] = PendingRecord(Stamp)
    /\ (\A w \in DOMAIN workers : workers[w].pc = "created")
          => \A i \in Issued : results[i] = PendingRecord(Stamp)

\* C13 witness: two identifiers returned; a worker's tasks.get() has taken
\* the first task off the FIFO and the worker has not dispatched it yet; both
\* records are pending.
C13_Witness ==
    /\ Len(results) = 2
    /\ Len(tasks) = 1
    /\ Len(workers) = 1
    /\ workers[1].pc = "waiting"
    /\ Holds(1, 1)
    /\ \A i \in Issued : results[i].status = "pending"

\* C14: when the handler returns a value for a task, the step in which it
\* returns leaves that task's record completed with that value as result and
\* changes no other record; the record then keeps the value for good.
C14_ReturnValueStored ==
    /\ [](\A i \in Issued :
            calls[i].outcome = "returned"
                => /\ results[i].status = "completed"
                   /\ results[i].result = calls[i].value)
    /\ [][\A i \in Issued :
            (calls[i].outcome = "none" /\ calls'[i].outcome = "returned")
                => /\ results'[i].status = "completed"
                   /\ results'[i].result = calls'[i].value
                   /\ \A j \in Issued \ {i} : results'[j] = results[j]]_vars

\* C14 witness: the handler returned V for task 1 and W for task 2 while
\* task 3 is being handled; each record carries the value of its own call.
C14_Witness ==
    /\ Len(results) = 3
    /\ calls[1].outcome = "returned" /\ calls[1].value = "V"
    /\ calls[2].outcome = "returned" /\ calls[2].value = "W"
    /\ results[1].result = "V"
    /\ results[2].result = "W"
    /\ results[3].status = "processing"
    /\ results[3].result = None

\* C15: each enqueue call adds exactly one task to the FIFO, at its tail and
\* under the identifier it returns, whatever the workers are doing; it leaves
\* the tasks of the other calls where they are, and no other step adds a
\* task or takes one from anywhere but the head.
C15_EachEnqueueAddsOneTask ==
    [][IF Len(results') # Len(results)
       THEN /\ Len(results') = Len(results) + 1
            /\ Queued(Len(results')) = 0
            /\ Len(tasks') = Len(tasks) + 1
            /\ SubSeq(tasks', 1, Len(tasks)) = tasks
            /\ tasks'[Len(tasks')].id = Len(results')
            /\ \A w \in DOMAIN workers :
                  /\ workers'[w].pc = workers[w].pc
                  /\ workers'[w].task = workers[w].task
       ELSE \/ tasks' = tasks
            \/ /\ tasks # <<>>
               /\ tasks' = Tail(tasks)
               /\ \E w \in DOMAIN workers :
                     /\ workers[w].fut # "done"
                     /\ workers'[w].fut = "done"
                     /\ workers'[w].task = Head(tasks)]_vars

\* C15 witness: two enqueue calls, one before and one while a worker is in
\* the handler; the second task sits alone on the FIFO.
C15_Witness ==
    /\ Len(results) = 2
    /\ Len(workers) = 1
    /\ workers[1].pc = "handling"
    /\ workers[1].task.id = 1
    /\ Len(tasks) = 1
    /\ tasks[1].id = 2
    /\ Queued(2) = 1

\* C16: enqueue never waits on the worker: in every reachable state a call
\* of enqueue can complete, whatever the workers are doing, and when it
\* completes the handler has not been invoked for the task it added, whose
\* record is pending.
C16_EnqueueNeverWaits ==
    /\ [](Len(results) < MaxTasks
            => \A t \in TaskTypes, i \in uuid4 : ENABLED Enqueue(t, i))
    /\ [][Len(results') # Len(results)
            => /\ calls'[Len(results')].n = 0
               /\ results'[Len(results')].status = "pending"]_vars

\* C16 witness: enqueue returned the third identifier after the first task
\* failed and while the worker is in a handler call for the second.
C16_Witness ==
    /\ Len(results) = 3
    /\ results[1].status = "failed"
    /\ Len(workers) = 1
    /\ workers[1].pc = "handling"
    /\ workers[1].task.id = 2
    /\ tasks = <<NewTask(3, "echo")>>
    /\ calls[3].n = 0

\* C17: in every state, get_task_result for an identifier enqueue never
\* returned yields status not_found with result None, and the route answers
\* 404; for an identifier enqueue did return it yields that task's record,
\* whose status is never not_found, and the route answers with the record.
C17_NotFoundIffNeverIssued ==
    \A i \in TaskIds \cup PollIds :
        IF i \in Issued
        THEN /\ Deref(Lookup(i)) = results[i]
             /\ Deref(Lookup(i)).status # "not_found"
             /\ get_task_status(i) = results[i]
        ELSE /\ Deref(Lookup(i)) = [status |-> "not_found", result |-> None]
             /\ get_task_status(i).status_code = HTTP_404_NOT_FOUND

\* C17 witness: a caller has just been told not_found while the queue holds
\* two records, one of them failed, and a worker is in a handler call.
C17_Witness ==
    /\ reply.kind = "not_found"
    /\ Len(results) = 2
    /\ results[1].status = "failed"
    /\ Len(workers) = 1
    /\ workers[1].pc = "handling"

\* C18: the record a get_task_result call handed back is a snapshot: as long
\* as no later call replaces it, what its holder reads in it does not change.
C18_ReplyIsSnapshot ==
    [][reply' = reply => Deref(reply)' = Deref(reply)]_vars

\* the worker w is at a step of processing the task with identifier i
Processing(w, i) ==
    /\ w \in DOMAIN workers
    /\ workers[w].pc = "handling" \/ Holds(w, i)
    /\ workers[w].task.id = i

\* C23: no step removes a result record, and a step that changes the
\* record of a task is a step of a worker that is processing that task;
\* enqueue, get_task_result, start_worker and stop_worker change no
\* existing record.
C23_RecordChangedOnlyByItsWorker ==
    [][/\ DOMAIN results \subseteq DOMAIN results'
       /\ \A i \in DOMAIN results :
            results'[i] # results[i] =>
                \E w \in DOMAIN workers : Processing(w, i) /\ StepOf(w)]_vars

\* C23 witness: the first task has been processed to the end and a caller
\* has read a record, while the record of the second task, enqueued before
\* the first was dispatched, is still as enqueue wrote it.
C23_Witness ==
    /\ DOMAIN results = {1, 2}
    /\ results[1].status \in {"completed", "failed"}
    /\ results[2] = PendingRecord(results[2].created_at)
    /\ started = <<1>>
    /\ reply.kind = "record"

\* C25: a record with status processing belongs to the task whose handler
\* call a live worker loop is executing.
C25_ProcessingHasItsHandler ==
    \A i \in Issued :
        results[i].status = "processing" =>
            \E w \in DOMAIN workers :
                workers[w].pc = "handling" /\ workers[w].task.id = i

\* C26: while the running flag is set, the worker task start_worker created
\* last has not ended.
C26_RunningHasLiveLoop ==
    _running =>
        /\ _worker_task \in DOMAIN workers
        /\ workers[_worker_task].pc # "done"

\* ---- the file store, the password generator
\* C20: the file store is a map from locations to bytes: between calls,
\* for every folder, user and file name that is not empty once made safe,
\* get_file returns the bytes of the last save_file there that no
\* delete_file has removed since and raises 404 when there is none, and
\* delete_file returns True exactly when such a file is there and changes
\* nothing when it returns False.
C20_StoreIsAMap ==
    (saving.pc = "idle" /\ getting.pc = "idle") =>
        \A n \in Names, f \in Folders, u \in UserIds :
            LET loc == FilePath(n, f, u)
            IN secure_filename(n) # <<>> =>
               /\ get_file(disk, n, f, u) =
                     IF loc \in DOMAIN stored
                     THEN [content_type |-> get_content_type(loc),
                           content |-> stored[loc]]
                     ELSE Raised(HTTPException(HTTP_404_NOT_FOUND,
                                               "Archivo no encontrado"))
               /\ delete_file(disk, n, f, u).ret = (loc \in DOMAIN stored)
               /\ ~delete_file(disk, n, f, u).ret =>
                        delete_file(disk, n, f, u).disk = disk

\* C21: every password generate_strong_password returns has the length asked
\* for and is accepted by is_valid_password.
C21_GeneratedPasswordIsValid ==
    gen.pc = "returned"
        => /\ Len(gen.password) = gen.length
           /\ is_valid_password(gen.password)


\* ---- the progress table (crud.py, routes/progress.py)
\* the call of caller c ends in this step: it returns or raises
Ends_update_progress(c) ==
    /\ InFlight(c)
    /\ upsert'[c].pc \in {"returned", "raised"}

\* the table holds one row for the key of d, with the estado and the
\* porcentaje_completado of d
OneRowOf(table, d) ==
    /\ Len(Select(table, d)) = 1
    /\ Select(table, d)[1].estado = d.estado
    /\ Select(table, d)[1].porcentaje_completado = d.porcentaje_completado

C29_InterleavedUpsertSingleRow ==
    \A d \in ProgressData : Len(Select(progreso, d)) <= 1

\* ---- the application and the content generator
\* C24: once the application has started, a task a route handler enqueues
\* does not stay pending for ever: the worker started at startup with
\* process_task takes it.
C24_EnqueuedWhileUpLeavesPending ==
    \A i \in TaskIds :
        (i \in Issued /\ results[i].status = "pending")
            ~> (i \in Issued /\ results[i].status # "pending")

\* C27: a task of a type the route handlers enqueue does not end failed on
\* the 'Unknown task type' ValueError of process_task.
C27_RouteTaskTypesHandled ==
    (job.pc = "done" /\ job.task_type \in RouteTaskTypes) =>
        /\ job.raised # "Unknown task type: "
        /\ job.record.status # "failed"

\* C28: when the LLM API call of a task fails, no exception reaches the
\* worker loop: process_message hands back the apology text, and the task
\* is recorded completed, not failed.
C28_LlmFailureRecordedCompleted ==
    (job.pc = "done" /\ job.llm = "failed") =>
        /\ job.raised = "none"
        /\ job.record.status = "completed"

\* C30: generate_exercises never fails on the 'Unknown agent type'
\* ValueError of create_agent, whatever the subject.
C30_MappedAgentAccepted ==
    (job.pc = "done" /\ job.task_type = "generate_exercises") =>
        job.raised # "Unknown agent type: "
====
